---- MODULE Spec2Model ----
(***************************************************************************)
(* Model of the video-detection pipeline of the extension's background     *)
(* service worker ("tabs manager/background.js"): the per-tab registry     *)
(* detectedVideos, the toggle videoDownloaderEnabled, the two webRequest   *)
(* observers, the tab-closed listener, the runtime message handler and the *)
(* periodic sweep.  Strings are sequences of one-character strings so that *)
(* toLowerCase, includes and the exclude regular expressions are computed  *)
(* character by character, as the JavaScript does.                         *)
(***************************************************************************)
EXTENDS Integers, Sequences, FiniteSets, TLC

VARIABLES
  detectedVideos,          \* background.js:2   tabId -> sequence of records
  videoDownloaderEnabled,  \* background.js:3   the toggle
  startupReadPending,      \* background.js:6   storage.local.get callback not yet run
  now,                     \* Date.now(), in milliseconds since the worker started
  nextSweep,               \* the time the setInterval callback is next due
  last,                    \* the handler that ran last and its arguments
  response,                \* the argument of sendResponse of the last message
  savedAtDisable,          \* history: the registry when detection was last disabled
  stored,                  \* chrome.storage.local: the value of videoDownloaderEnabled
  offSinceStart,           \* history: stored was false at the start, no toggle to true since
  content,                 \* content.js:5-7, 21  tabId -> the state of the tab's content script
  injectedLoaded,          \* content.js:69-78    tabId -> injected.js runs in the tab's page
  windowMessages,          \* tabId -> the messages posted on the tab's window, not yet dispatched
  polls,                   \* content.js:145-172  the downloadBlob requests, in order of arrival
  popupEnabled,            \* popup.js  videoDownloaderEnabled of the popup
  clicks,                  \* the changes of the popup toggle and how far each has got
  notifications,           \* listener -> storage change notifications not yet delivered
  messages,                \* listener -> setVideoDownloaderEnabled messages not yet delivered
  browserTabs,             \* the tabs of the current window, in order: url and groupId
  tabGroups,               \* group id -> title and color of the tab group
  urlInput,                \* part_000:63  the text of the textarea
  clipboard,               \* part_000:105 the text on the clipboard
  popupLast,               \* the tab handler of the popup that ran last
  pageWorld                \* injected.js:8-12  tabId -> __videoBlobs, __mseUrlToId, __mseCaptures

vars == <<detectedVideos, videoDownloaderEnabled, startupReadPending, now,
          nextSweep, last, response, savedAtDisable, stored, offSinceStart,
          content, injectedLoaded, windowMessages, polls,
          popupEnabled, clicks, notifications, messages,
          browserTabs, tabGroups, urlInput, clipboard, popupLast, pageWorld>>

\* the state of the background worker, and the state outside it
background == <<detectedVideos, videoDownloaderEnabled, startupReadPending,
                nextSweep, last, response, savedAtDisable, stored, offSinceStart>>
toggleUi == <<popupEnabled, clicks, notifications, messages>>
tabsUi == <<browserTabs, tabGroups, urlInput, clipboard, popupLast>>
page == <<content, injectedLoaded, windowMessages, polls>>
others == <<page, toggleUi, tabsUi, pageWorld>>

----------------------------------------------------------------------------
(* Bounds of the model *)

MaxRecords == 2
MaxSweeps == 1
MaxRequests == 2
OverlapPolls == 2
MaxLatency == 100
MaxClicks == 2
MaxWindowTabs == 3
\* the most blob messages that wait or are held by a content script
MaxBlobs == 2
\* the most source buffers of a MediaSource and appendBuffer calls on each
MaxSources == 2
MaxAppends == 2
\* the most tabs of a window on which Close Duplicate Tabs is clicked
MaxDuplicateTabs == 4
\* the most third-party hosts and tracker hosts a scanned page has
MaxThirdParty == 18
MaxTrackers == 6
AgingSweeps == 7

----------------------------------------------------------------------------
(* Strings *)

UpperChars == <<"A","B","C","D","E","F","G","H","I","J","K","L","M","N","O","P","Q","R","S","T","U","V","W","X","Y","Z">>
LowerChars == <<"a","b","c","d","e","f","g","h","i","j","k","l","m","n","o","p","q","r","s","t","u","v","w","x","y","z">>
DigitChars == <<"0","1","2","3","4","5","6","7","8","9">>

LowerChar(c) ==
  IF \E i \in 1..Len(UpperChars) : UpperChars[i] = c
  THEN LowerChars[CHOOSE i \in 1..Len(UpperChars) : UpperChars[i] = c]
  ELSE c

\* String.prototype.toLowerCase
toLowerCase(s) == [i \in 1..Len(s) |-> LowerChar(s[i])]

\* the substring of s of length n that starts at (1-based) position i
Slice(s, i, n) == SubSeq(s, i, i + n - 1)

\* String.prototype.includes
includes(s, sub) ==
  \E i \in 1..(Len(s) - Len(sub) + 1) : Slice(s, i, Len(sub)) = sub

\* String.prototype.startsWith
startsWith(s, pre) == Len(s) >= Len(pre) /\ Slice(s, 1, Len(pre)) = pre

IsDigit(c) == \E i \in 1..Len(DigitChars) : DigitChars[i] = c

----------------------------------------------------------------------------
(* Regular expressions: a pattern is a sequence of elements, each a literal *)
(* or \d+; MatchEnds gives the positions at which a match of pat[k..]       *)
(* that starts at position i of s can end (the position after its last      *)
(* character).                                                              *)

Lit(str) == [kind |-> "lit", str |-> str]
Digits == [kind |-> "digits", str |-> <<>>]

RECURSIVE MatchEnds(_, _, _, _)
MatchEnds(pat, k, s, i) ==
  IF k > Len(pat) THEN {i}
  ELSE IF pat[k].kind = "lit"
       THEN IF /\ i + Len(pat[k].str) - 1 <= Len(s)
               /\ Slice(s, i, Len(pat[k].str)) = pat[k].str
            THEN MatchEnds(pat, k + 1, s, i + Len(pat[k].str))
            ELSE {}
       ELSE UNION { MatchEnds(pat, k + 1, s, i + n) :
                    n \in { m \in 1..(Len(s) - i + 1) :
                            \A j \in i..(i + m - 1) : IsDigit(s[j]) } }

\* RegExp.prototype.test for a pattern without the g flag: a match may start
\* anywhere; toEnd is the $ anchor, ignoreCase the i flag (the patterns'
\* literals are lower case)
RegexTest(re, str) ==
  LET s == IF re.ignoreCase THEN toLowerCase(str) ELSE str
  IN \E i \in 1..(Len(s) + 1) :
       \E e \in MatchEnds(re.pat, 1, s, i) : re.toEnd => e = Len(s) + 1

----------------------------------------------------------------------------
(* VIDEO_PATTERNS *)

extensions ==
  << <<".","m","p","4">>,
     <<".","w","e","b","m">>,
     <<".","o","g","g">>,
     <<".","m","o","v">>,
     <<".","a","v","i">>,
     <<".","m","k","v">>,
     <<".","f","l","v">>,
     <<".","m","4","v">>,
     <<".","3","g","p">>,
     <<".","w","m","v">>,
     <<".","m","3","u","8">> >>

mimeTypes ==
  << <<"v","i","d","e","o","/">>,
     <<"a","p","p","l","i","c","a","t","i","o","n","/","x","-","m","p","e","g","U","R","L">>,
     <<"a","p","p","l","i","c","a","t","i","o","n","/","v","n","d",".","a","p","p","l","e",".","m","p","e","g","u","r","l">> >>

LitSeg == <<"s","e","g","-">>
LitDashV == <<"-","v">>
LitDashA == <<"-","a">>
LitDotTs == <<".","t","s">>
LitChunk == <<"c","h","u","n","k","-">>
LitSegment == <<"s","e","g","m","e","n","t">>
LitDash == <<"-">>
LitDotTsQ == <<".","t","s","?">>

excludePatterns ==
  << \* /seg-\d+-v\d+-a\d+\.ts$/i
     [pat |-> <<Lit(LitSeg), Digits, Lit(LitDashV), Digits, Lit(LitDashA), Digits, Lit(LitDotTs)>>,
      toEnd |-> TRUE, ignoreCase |-> TRUE],
     \* /chunk-\d+\.ts$/i
     [pat |-> <<Lit(LitChunk), Digits, Lit(LitDotTs)>>, toEnd |-> TRUE, ignoreCase |-> TRUE],
     \* /segment\d+\.ts$/i
     [pat |-> <<Lit(LitSegment), Digits, Lit(LitDotTs)>>, toEnd |-> TRUE, ignoreCase |-> TRUE],
     \* /-\d+\.ts$/i
     [pat |-> <<Lit(LitDash), Digits, Lit(LitDotTs)>>, toEnd |-> TRUE, ignoreCase |-> TRUE],
     \* /\.ts\?/
     [pat |-> <<Lit(LitDotTsQ)>>, toEnd |-> FALSE, ignoreCase |-> FALSE] >>

StrVideo == <<"v","i","d","e","o">>
StrM3u8 == <<".","m","3","u","8">>
StrStream == <<"s","t","r","e","a","m">>
StrBlob == <<"b","l","o","b",":">>
StrData == <<"d","a","t","a",":">>
StrContentType == <<"c","o","n","t","e","n","t","-","t","y","p","e">>

\* background.js:45  excludePatterns.some(pattern => pattern.test(url))
isExcluded(url) ==
  \E p \in 1..Len(excludePatterns) : RegexTest(excludePatterns[p], url)

\* background.js:51-54
isVideo(url) ==
  \/ \E e \in 1..Len(extensions) : includes(toLowerCase(url), extensions[e])
  \/ includes(url, StrVideo)
  \/ includes(url, StrM3u8)
  \/ includes(url, StrStream)

\* background.js:56  the condition under which the network-body path records
AcceptedByUrl(url) ==
  isVideo(url) /\ ~includes(url, StrBlob) /\ ~includes(url, StrData)

----------------------------------------------------------------------------
(* Inputs: the requests the observers see *)

UrlMovie == <<"h","t","t","p",":","/","/","x","/","a",".","m","p","4">>
UrlSegment == <<"h","t","t","p",":","/","/","x","/","v","i","d","e","o","/","s","e","g","-","6","-","v","1","-","a","1",".","t","s">>
UrlDataText == <<"h","t","t","p",":","/","/","x","/","m","e","t","a","d","a","t","a",":","1","/","a",".","m","p","4">>

HdrNameMixed == <<"C","o","n","t","e","n","t","-","T","y","p","e">>
HdrNameLower == <<"c","o","n","t","e","n","t","-","t","y","p","e">>
HdrNameOther == <<"S","e","r","v","e","r">>
CtVideoMixed == <<"V","i","d","e","o","/","M","P","4">>
CtMp2t == <<"v","i","d","e","o","/","m","p","2","t">>
CtHtml == <<"t","e","x","t","/","h","t","m","l">>

Header(name, value) == [name |-> name, value |-> value]

Request(url, headers) == [url |-> url, responseHeaders |-> headers]

\* a video served with a content type spelt in mixed case
ReqMovie == Request(UrlMovie, <<Header(HdrNameOther, CtHtml), Header(HdrNameMixed, CtVideoMixed)>>)
\* a streaming segment
ReqSegment == Request(UrlSegment, <<Header(HdrNameLower, CtMp2t)>>)
\* a video whose URL holds the text "data:"
ReqDataText == Request(UrlDataText, <<>>)

ObservedRequests == {ReqMovie, ReqSegment, ReqDataText}
ObservedUrls == { r.url : r \in ObservedRequests }

\* a property of details that is missing: the value undefined, which is no
\* string; String(undefined) is what a regular expression tests in its place
Undefined == <<"undefined">>
StrUndefined == <<"u","n","d","e","f","i","n","e","d">>
StringOf(v) == IF v = Undefined THEN StrUndefined ELSE v
\* details without responseHeaders
NoHeaders == << [undefined |-> TRUE] >>

UrlUpperVideo == <<"h","t","t","p",":","/","/","x","/","V","I","D","E","O">>
UrlCapStream == <<"h","t","t","p",":","/","/","x","/","S","t","r","e","a","m">>
UrlLowerVideo == <<"h","t","t","p",":","/","/","x","/","v","i","d","e","o">>
UrlUpperExt == <<"h","t","t","p",":","/","/","x","/","A",".","M","P","4">>
UrlPage == <<"h","t","t","p",":","/","/","x","/","p">>
UrlManifestX == <<"h","t","t","p",":","/","/","x","/","m">>
UrlManifestApple == <<"h","t","t","p",":","/","/","x","/","n">>
UrlOther == <<"h","t","t","p",":","/","/","x","/","o">>
UrlNoName == <<"h","t","t","p",":","/","/","x","/","h">>

CtMpegUrlX == <<"a","p","p","l","i","c","a","t","i","o","n","/","x","-","m","p","e","g","U","R","L">>
CtMpegUrlApple == <<"A","p","p","l","i","c","a","t","i","o","n","/","v","n","d",".","a","p","p","l","e",".","m","p","e","g","u","r","l">>
CtVideoInside == <<"x","-","v","i","d","e","o","/","a">>

\* requests that differ in the case of the url's words and extension
ReqUpperVideo == Request(UrlUpperVideo, <<>>)
ReqCapStream == Request(UrlCapStream, NoHeaders)
ReqLowerVideo == Request(UrlLowerVideo, <<Header(HdrNameLower, CtHtml)>>)
ReqUpperExt == Request(UrlUpperExt, <<Header(HdrNameLower, CtHtml)>>)
\* a page
ReqPage == Request(UrlPage, <<Header(HdrNameMixed, CtHtml)>>)
\* manifests served with the two HLS content types
ReqManifestX == Request(UrlManifestX, <<Header(HdrNameMixed, CtMpegUrlX)>>)
ReqManifestApple == Request(UrlManifestApple, <<Header(HdrNameLower, CtMpegUrlApple)>>)
\* a content type that holds video/ but does not start with it
ReqVideoInside == Request(UrlOther, <<Header(HdrNameLower, CtVideoInside)>>)
\* details without a url, and a response header without a name
ReqNoUrl == Request(Undefined, <<>>)
ReqNoName == Request(UrlNoName, <<Header(Undefined, CtMp2t), Header(HdrNameLower, CtMp2t)>>)

ProbeRequests ==
  {ReqUpperVideo, ReqCapStream, ReqLowerVideo, ReqUpperExt, ReqPage, ReqManifestX,
   ReqManifestApple, ReqVideoInside, ReqNoUrl, ReqNoName}

KnownRequests == ObservedRequests \cup ProbeRequests
KnownUrls == { r.url : r \in KnownRequests }

\* the values a stored or sent flag can have
FlagValues == {"true", "false", "undefined"}

\* what the classification of the code says of each observed request,
\* computed once
UrlFacts ==
  [u \in KnownUrls |->
     [excluded |-> isExcluded(StringOf(u)),
      \* background.js:51: undefined.toLowerCase() throws a TypeError
      throws |-> u = Undefined /\ ~isExcluded(StringOf(u)),
      accepted |-> u # Undefined /\ AcceptedByUrl(u)]]

----------------------------------------------------------------------------
(* The registry: a JavaScript object keyed by tab id *)

maxPerTab == 50
SweepInterval == 5 * 60 * 1000
\* faulty variant: records are kept for 40 minutes
maxAgeLong == 40 * 60 * 1000

maxAge == 30 * 60 * 1000

NoTab == -1
\* part_000:86  tab.groupId of a tab in no group
NoGroup == -1
\* the tabs of the model: the one a handler is called for, and another
Tabs == {1, 2}

EmptyRegistry == [t \in {} |-> <<>>]

\* detectedVideos[tabId] = list
Put(videos, tabId, list) ==
  [t \in DOMAIN videos \cup {tabId} |-> IF t = tabId THEN list ELSE videos[t]]

\* delete detectedVideos[tabId]
Delete(videos, tabId) == [t \in DOMAIN videos \ {tabId} |-> videos[t]]

\* detectedVideos[tabId] || []
ListOf(videos, tabId) == IF tabId \in DOMAIN videos THEN videos[tabId] ELSE <<>>

\* faulty variant: the duplicate check is lost
AlreadyDetectedNever(list, url) == FALSE

\* detectedVideos[tabId].some(v => v.url === url)
AlreadyDetected(list, url) == \E i \in 1..Len(list) : list[i].url = url

\* faulty variant: the cap is lost
KeepAll(list) == list

\* if (list.length > 50) list = list.slice(-50)
KeepLast(list) ==
  IF Len(list) > maxPerTab
  THEN SubSeq(list, Len(list) - maxPerTab + 1, Len(list))
  ELSE list

\* faulty variant: a new record is put in front (unshift for push)
StoreInFront(videos, tabId, rec) ==
  LET base == IF tabId \in DOMAIN videos THEN videos ELSE Put(videos, tabId, <<>>)
  IN IF AlreadyDetected(base[tabId], rec.url)
     THEN base
     ELSE Put(base, tabId, KeepLast(<<rec>> \o base[tabId]))

\* background.js:58-76 and 98-115: create the entry, skip a duplicate, push, cap
Store(videos, tabId, rec) ==
  LET base == IF tabId \in DOMAIN videos THEN videos ELSE Put(videos, tabId, <<>>)
  IN IF AlreadyDetected(base[tabId], rec.url)
     THEN base
     ELSE Put(base, tabId, KeepLast(Append(base[tabId], rec)))

NetworkRecord(url, t) == [url |-> url, timestamp |-> t, type |-> "network"]

HeaderRecord(url, t, contentType) ==
  [url |-> url, timestamp |-> t, type |-> "header", contentType |-> contentType]

\* faulty variant: the listener does not look at the toggle
onBeforeRequestUngated(videos, enabled, details, t) ==
  IF details.tabId = NoTab THEN videos
  ELSE IF UrlFacts[details.url].excluded THEN videos
  ELSE IF UrlFacts[details.url].throws THEN videos
  ELSE IF UrlFacts[details.url].accepted
       THEN Store(videos, details.tabId, NetworkRecord(details.url, t))
       ELSE videos

\* faulty variant: the listener does not look at the tab id
onBeforeRequestAnyTab(videos, enabled, details, t) ==
  IF ~enabled THEN videos
  ELSE IF UrlFacts[details.url].excluded THEN videos
  ELSE IF UrlFacts[details.url].throws THEN videos
  ELSE IF UrlFacts[details.url].accepted
       THEN Store(videos, details.tabId, NetworkRecord(details.url, t))
       ELSE videos

\* background.js:35-81: the registry after the onBeforeRequest listener
onBeforeRequest(videos, enabled, details, t) ==
  IF ~enabled THEN videos
  ELSE IF details.tabId = NoTab THEN videos
  ELSE IF UrlFacts[details.url].excluded THEN videos
  ELSE IF UrlFacts[details.url].throws THEN videos
  ELSE IF UrlFacts[details.url].accepted
       THEN Store(videos, details.tabId, NetworkRecord(details.url, t))
       ELSE videos

\* background.js:93-95: responseHeaders?.find(h => h.name.toLowerCase() ===
\* 'content-type')?.value?.toLowerCase(); <<>> stands for undefined
ContentTypeOf(headers) ==
  IF headers = NoHeaders THEN <<>>
  ELSE LET hits == { i \in 1..Len(headers) : toLowerCase(headers[i].name) = StrContentType }
           first == CHOOSE i \in hits : \A j \in hits : i <= j
       IN IF hits = {} THEN <<>>
          ELSE IF headers[first].value = Undefined THEN <<>>
          ELSE toLowerCase(headers[first].value)

\* background.js:94: h.name.toLowerCase() throws a TypeError for a header
\* without a name that find reaches before a content-type header
HeaderThrows(headers) ==
  /\ headers # NoHeaders
  /\ \E i \in 1..Len(headers) :
       /\ headers[i].name = Undefined
       /\ \A j \in 1..(i - 1) : toLowerCase(headers[j].name) # StrContentType

\* background.js:97: contentType && mimeTypes.some(type => contentType.includes(type))
AcceptedByHeader(contentType) ==
  /\ contentType # <<>>
  /\ \E m \in 1..Len(mimeTypes) : includes(contentType, mimeTypes[m])

\* what the code reads from each observed list of response headers,
\* computed once
HeaderFacts ==
  [h \in { r.responseHeaders : r \in KnownRequests } |->
     [contentType |-> ContentTypeOf(h),
      throws |-> HeaderThrows(h),
      accepted |-> ~HeaderThrows(h) /\ AcceptedByHeader(ContentTypeOf(h))]]

\* faulty variant: the entry of the tab is created before the headers are read
onHeadersReceivedEntryFirst(videos, enabled, details, t) ==
  IF ~enabled THEN videos
  ELSE IF details.tabId = NoTab THEN videos
  ELSE IF HeaderFacts[details.responseHeaders].throws
       THEN (IF details.tabId \in DOMAIN videos THEN videos
             ELSE Put(videos, details.tabId, <<>>))
  ELSE IF HeaderFacts[details.responseHeaders].accepted
       THEN Store(videos, details.tabId,
                  HeaderRecord(details.url, t,
                               HeaderFacts[details.responseHeaders].contentType))
       ELSE videos

\* background.js:87-120: the registry after the onHeadersReceived listener
onHeadersReceived(videos, enabled, details, t) ==
  IF ~enabled THEN videos
  ELSE IF details.tabId = NoTab THEN videos
  ELSE IF HeaderFacts[details.responseHeaders].throws THEN videos
  ELSE IF HeaderFacts[details.responseHeaders].accepted
       THEN Store(videos, details.tabId,
                  HeaderRecord(details.url, t,
                               HeaderFacts[details.responseHeaders].contentType))
       ELSE videos

\* faulty variant: <= for <
FreshInclusive(v, t) == (t - v.timestamp) <= maxAge

\* background.js:172: the filter of the sweep
Fresh(v, t) == (t - v.timestamp) < maxAge

\* faulty variant: the sweep only prunes the empty entries
sweepOnlyPrunes(videos, t) ==
  [tab \in { x \in DOMAIN videos : Len(videos[x]) # 0 } |-> videos[tab]]

\* background.js:170-178: the registry after a sweep at time t
sweep(videos, t) ==
  LET kept == [tab \in DOMAIN videos |-> SelectSeq(videos[tab], LAMBDA v : Fresh(v, t))]
  IN [tab \in { x \in DOMAIN videos : Len(kept[x]) # 0 } |-> kept[tab]]

\* faulty variant: only true enables
IsTrue(value) == value = "true"

\* value !== false, for a value read from storage or from a message
NotFalse(value) == value # "false"

\* the requests, each with a tab id
DetailsOf(tabs, requests) ==
  { [tabId |-> t, url |-> r.url, responseHeaders |-> r.responseHeaders] :
      t \in tabs, r \in requests }

\* the number of records of observed requests the registry holds
RECURSIVE RecordCount(_)
RecordCount(videos) ==
  IF DOMAIN videos = {} THEN 0
  ELSE LET t == CHOOSE x \in DOMAIN videos : TRUE
       IN Cardinality({ i \in 1..Len(videos[t]) : videos[t][i].url \in KnownUrls })
          + RecordCount(Delete(videos, t))

----------------------------------------------------------------------------
(* History: which handler ran last, and where it left *)

NoResponse == [none |-> TRUE]

\* the actions of the runtime messages; their listener returns true
\* (background.js:141, 150, 162), every other callback returns no value
MessageActions == {"setVideoDownloaderEnabled", "getDetectedVideos", "clearDetectedVideos"}

Ran(op, tabId, outcome) ==
  [op |-> op, tabId |-> tabId, outcome |-> outcome,
   returned |-> IF op \in MessageActions THEN "true" ELSE "undefined"]

ObserverOutcome(videos, enabled, details, throws, accepted) ==
  IF ~enabled THEN "disabled"
  ELSE IF details.tabId = NoTab THEN "noTab"
  ELSE IF throws THEN "caught"
  ELSE IF ~accepted THEN "rejected"
  ELSE IF AlreadyDetected(ListOf(videos, details.tabId), details.url) THEN "duplicate"
  ELSE IF Len(ListOf(videos, details.tabId)) >= maxPerTab THEN "capped"
  ELSE "recorded"

NotSaved == [valid |-> FALSE, videos |-> EmptyRegistry]

\* the registry is remembered when the toggle goes from on to off and
\* forgotten when it goes back on or a sweep, tab close or clear runs
SavedNext(enabledAfter, forgets) ==
  IF videoDownloaderEnabled /\ ~enabledAfter
  THEN [valid |-> TRUE, videos |-> detectedVideos]
  ELSE IF enabledAfter \/ forgets THEN NotSaved
  ELSE savedAtDisable

\* a toggle change that turns detection back on while the registry of the
\* time it was turned off is still remembered is marked "revealed"
ToggleOutcome(value, enabledAfter) ==
  IF ~videoDownloaderEnabled /\ enabledAfter /\ savedAtDisable.valid
  THEN "revealed"
  ELSE value

----------------------------------------------------------------------------
(* The content script of a tab and the page it runs in *)

\* content.js:155
maxAttempts == 100
\* content.js:172 and 163: the delay of the first check and of each later one
FirstDelay == 100
PollDelay == 50

\* window.__lastDownloadResult is not set
NoDownloadResult == [absent |-> TRUE]

\* content.js:167 and 130
DownloadTimeout ==
  [success |-> FALSE, error |-> "Download timeout - injected script may not be loaded"]
DownloaderDisabled == [success |-> FALSE, error |-> "Video downloader is disabled"]

\* injected.js:388-400: window.__videoBlobs holds the blob of one url
UrlBlobStored == "blob:stored"
UrlBlobUnknown == "blob:unknown"
BlobUrls == {UrlBlobStored, UrlBlobUnknown}

\* the URL made for a MediaSource, and the MediaSource objects of the page
UrlMse == "blob:mse"
MediaSources == {1}

MimeVideo == <<"v","i","d","e","o","/","m","p","4">>
MimeAudio == <<"a","u","d","i","o","/","m","p","4">>
StrVideoSlash == <<"v","i","d","e","o","/">>
StrAudioSlash == <<"a","u","d","i","o","/">>
MimeVideoWebm == <<"v","i","d","e","o","/","w","e","b","m">>
MimeAudioWebm == <<"a","u","d","i","o","/","w","e","b","m">>

\* a Blob: its type and its parts; no Blob, no source, no capture
Blob(type, parts) == [type |-> type, parts |-> parts]
NoBlob == [noBlob |-> TRUE]
NoSource == [noSource |-> TRUE]
NoCapture == [noCapture |-> TRUE]
StoredBlob == Blob(MimeVideo, <<<<1>>>>)

\* injected.js:8-12: the page with one Blob under its URL
\* hookCalls counts the calls of hooked appendBuffer functions
PageInit ==
  [videoBlobs |-> Put(EmptyRegistry, UrlBlobStored, StoredBlob),
   mseUrlToId |-> EmptyRegistry,
   mseCaptures |-> EmptyRegistry,
   hookCalls |-> 0]

\* injected.js:257: the capture of a new source buffer; calls is the history
\* of the arguments given to the original appendBuffer
Source(mimeType) ==
  [mimeType |-> mimeType, buffers |-> <<>>, totalBytes |-> 0, calls |-> <<>>]

\* the arguments of appendBuffer: an ArrayBuffer, a view of a part of an
\* ArrayBuffer, or something else
ArrayBuffer(bytes) == [kind |-> "ArrayBuffer", bytes |-> bytes]
View(bytes, byteOffset, byteLength) ==
  [kind |-> "view", bytes |-> bytes, byteOffset |-> byteOffset, byteLength |-> byteLength]
NotABuffer == [kind |-> "other"]

\* faulty variant: the copy of a view is the copy of its whole buffer
cloneWholeBuffer(buffer) ==
  IF buffer.kind \in {"ArrayBuffer", "view"}
  THEN [copied |-> TRUE, bytes |-> buffer.bytes]
  ELSE [copied |-> FALSE]

\* injected.js:227-241
cloneBufferData(buffer) ==
  IF buffer.kind = "ArrayBuffer"
  THEN [copied |-> TRUE, bytes |-> buffer.bytes]
  ELSE IF buffer.kind = "view"
  THEN [copied |-> TRUE,
        bytes |-> SubSeq(buffer.bytes, buffer.byteOffset + 1,
                         buffer.byteOffset + buffer.byteLength)]
  ELSE [copied |-> FALSE]

\* injected.js:259-273: the hooked appendBuffer of a captured source
\* buffer; fails: the copy throws (line 270)
appendBuffer(source, buffer, fails) ==
  LET copy == cloneBufferData(buffer)
      captured ==
        IF ~fails /\ copy.copied
        THEN [source EXCEPT !.buffers = Append(@, copy.bytes),
                            !.totalBytes = @ + Len(copy.bytes)]
        ELSE source
  IN [captured EXCEPT !.calls = Append(@, buffer)]

\* injected.js:245-278: the hooked addSourceBuffer of MediaSource ms
addSourceBuffer(world, ms, mimeType) ==
  LET captures == IF ms \in DOMAIN world.mseCaptures
                  THEN world.mseCaptures
                  ELSE Put(world.mseCaptures, ms, [sources |-> <<>>])
  IN [world EXCEPT
        !.mseCaptures =
          Put(captures, ms,
              [sources |-> Append(captures[ms].sources, Source(mimeType))])]

\* injected.js:284-315: the hooked URL.createObjectURL, for a MediaSource
\* (object.mediaSource is its id) or a Blob
createObjectURL(world, url, object) ==
  IF "mediaSource" \in DOMAIN object
  THEN [world EXCEPT
          !.mseCaptures = IF object.mediaSource \in DOMAIN @ THEN @
                          ELSE Put(@, object.mediaSource, [sources |-> <<>>]),
          !.mseUrlToId = Put(@, url, object.mediaSource)]
  ELSE [world EXCEPT !.videoBlobs = Put(@, url, object)]

\* the first source, in the order of insertion, whose type starts with pre
FirstOfType(sources, pre) ==
  LET found == {i \in DOMAIN sources : startsWith(sources[i].mimeType, pre)}
  IN IF found = {} THEN NoSource
     ELSE sources[CHOOSE i \in found : \A j \in found : i <= j]

\* faulty variant: the source with the most bytes, of whatever type
pickLargestSource(capture) ==
  IF capture = NoCapture \/ capture.sources = <<>> THEN NoSource
  ELSE LET sources == capture.sources
           RECURSIVE largest(_, _)
           largest(a, k) ==
             IF k > Len(sources) THEN a
             ELSE largest(IF sources[k].totalBytes
                               > (IF a = NoSource THEN 0 ELSE a.totalBytes)
                          THEN sources[k] ELSE a, k + 1)
       IN largest(NoSource, 1)

\* injected.js:64-72
pickBestSource(capture) ==
  IF capture = NoCapture \/ capture.sources = <<>> THEN NoSource
  ELSE LET sources == capture.sources
           video == FirstOfType(sources, StrVideoSlash)
           RECURSIVE reduce(_, _)
           reduce(a, k) ==
             IF k > Len(sources) THEN a
             ELSE reduce(IF sources[k].totalBytes
                              > (IF a = NoSource THEN 0 ELSE a.totalBytes)
                         THEN sources[k] ELSE a, k + 1)
       IN IF video # NoSource THEN video ELSE reduce(NoSource, 1)

\* window.__mseCaptures[window.__mseUrlToId[url]]
CaptureOf(world, url) ==
  IF url \in DOMAIN world.mseUrlToId
       /\ world.mseUrlToId[url] \in DOMAIN world.mseCaptures
  THEN world.mseCaptures[world.mseUrlToId[url]]
  ELSE NoCapture

\* injected.js:74-92: the world after the call, and the Blob returned
reconstructBlobFromMSE(world, url) ==
  LET source == pickBestSource(CaptureOf(world, url))
  IN IF url \notin DOMAIN world.mseUrlToId \/ source = NoSource
     THEN [world |-> world, blob |-> NoBlob]
     ELSE IF source.buffers = <<>>
     THEN [world |-> world, blob |-> NoBlob]
     ELSE LET blob == Blob(IF source.mimeType = <<>> THEN MimeVideoWebm
                           ELSE source.mimeType, source.buffers)
          IN [world |-> [world EXCEPT !.videoBlobs = Put(@, url, blob)],
              blob |-> blob]

\* injected.js:95-123: the world after the call
reconstructAudioBlobFromMSE(world, url) ==
  LET capture == CaptureOf(world, url)
      source == IF capture = NoCapture THEN NoSource
                ELSE FirstOfType(capture.sources, StrAudioSlash)
  IN IF source = NoSource THEN world
     ELSE IF source.buffers = <<>> THEN world
     ELSE [world EXCEPT
             !.videoBlobs = Put(@, url \o "#audio",
                                Blob(source.mimeType, source.buffers))]

Found(world, url) ==
  IF url \in DOMAIN world.videoBlobs
  THEN [world |-> world, blob |-> world.videoBlobs[url]]
  ELSE reconstructBlobFromMSE(world, url)

\* faulty variant: only window.__videoBlobs is looked at
downloadWithoutFallback(world, url) ==
  [world |-> world,
   result |-> IF url \in DOMAIN world.videoBlobs
              THEN [success |-> TRUE]
              ELSE [success |-> FALSE, error |-> "Blob not found in storage"]]

\* injected.js:383-475: the world after a DOWNLOAD_BLOB message, and the
\* result that is posted
downloadBlob(world, url) ==
  LET found == Found(world, url)
  IN IF found.blob = NoBlob
     THEN [world |-> found.world,
           result |-> [success |-> FALSE, error |-> "Blob not found in storage"]]
     ELSE [world |-> reconstructAudioBlobFromMSE(found.world, url),
           result |-> [success |-> TRUE]]

\* content.js:5-7 and 109-111: the script after its start-up read of the flag;
\* an enabled script has attempted its injection. injections counts the
\* injections made, clearedBlobs is the list that the last disabling cleared
ContentInit(enabled) ==
  [videoDownloaderEnabled |-> enabled,
   injectionAttempted |-> enabled,
   detectedBlobs |-> <<>>,
   lastDownloadResult |-> NoDownloadResult,
   startupReadPending |-> FALSE,
   readyState |-> "complete",
   domListener |-> FALSE,
   injections |-> IF enabled THEN 1 ELSE 0,
   clearedBlobs |-> <<>>]

\* content.js:5-7: the script when it starts, before the callback of its
\* storage read (line 109) has run, in a document that is still loading or not
ContentStart(readyState) ==
  [videoDownloaderEnabled |-> TRUE,
   injectionAttempted |-> FALSE,
   detectedBlobs |-> <<>>,
   lastDownloadResult |-> NoDownloadResult,
   startupReadPending |-> TRUE,
   readyState |-> readyState,
   domListener |-> FALSE,
   injections |-> 0,
   clearedBlobs |-> <<>>]

\* faulty variant: the injection does not look at what was done before
injectScriptUnguarded(c) ==
  [c EXCEPT !.injectionAttempted = TRUE, !.injections = @ + 1]

\* content.js:37-84
injectScript(c) ==
  IF c.injectionAttempted \/ ~c.videoDownloaderEnabled
  THEN c
  ELSE [c EXCEPT !.injectionAttempted = TRUE, !.injections = @ + 1]

\* faulty variant: the listener does not look at the flag
onWindowMessageUngated(c, m) ==
  IF m.type = "BLOB_DETECTED"
  THEN [c EXCEPT !.detectedBlobs = Append(@, m.blob)]
  ELSE IF m.type = "BLOBS_LIST"
  THEN [c EXCEPT !.detectedBlobs = m.blobs]
  ELSE c

\* content.js:10-34: the content script's listener of window messages
onWindowMessage(c, m) ==
  IF ~c.videoDownloaderEnabled THEN c
  ELSE IF m.type = "BLOB_DETECTED"
  THEN [c EXCEPT !.detectedBlobs = Append(@, m.blob)]
  ELSE IF m.type = "BLOBS_LIST"
  THEN [c EXCEPT !.detectedBlobs = m.blobs]
  ELSE IF m.type = "DOWNLOAD_RESULT"
  THEN [c EXCEPT !.lastDownloadResult = [result |-> m.result, req |-> m.req]]
  ELSE c

\* the listeners of storage changes and of messages: the background worker
\* and the content script of each tab
Background == 0
Listeners == {Background} \cup Tabs

\* part_000:666 and 729-732: the popup after it has read the stored flag
ToggleInit(enabled) ==
  /\ popupEnabled = enabled
  /\ clicks = <<>>
  /\ notifications = [l \in Listeners |-> <<>>]
  /\ messages = [l \in Listeners |-> <<>>]

\* a window without tabs, and the popup opened on a window
EmptyWindow == [tabs |-> <<>>, groups |-> <<>>]

TabsInit(window) ==
  /\ browserTabs = window.tabs
  /\ tabGroups = window.groups
  /\ urlInput = <<>>
  /\ clipboard = <<>>
  /\ popupLast = [op |-> "load", restore |-> FALSE, status |-> ""]

OthersInit ==
  /\ content = [t \in Tabs |-> ContentInit(TRUE)]
  /\ injectedLoaded = [t \in Tabs |-> TRUE]
  /\ windowMessages = [t \in Tabs |-> <<>>]
  /\ polls = <<>>
  /\ pageWorld = [t \in Tabs |-> PageInit]
  /\ ToggleInit(TRUE)
  /\ TabsInit(EmptyWindow)

----------------------------------------------------------------------------
(* The state after the script has been evaluated *)

Init ==
  /\ detectedVideos = EmptyRegistry
  /\ videoDownloaderEnabled = TRUE
  /\ startupReadPending = TRUE
  /\ now = 0
  /\ nextSweep = SweepInterval
  /\ last = Ran("load", NoTab, "")
  /\ response = NoResponse
  /\ savedAtDisable = NotSaved
  /\ stored \in FlagValues
  /\ offSinceStart = (stored = "false")
  /\ OthersInit

----------------------------------------------------------------------------
(* Handlers *)

\* background.js:6-8
StorageGetCallback(value) ==
  /\ startupReadPending
  /\ value = stored
  /\ startupReadPending' = FALSE
  /\ videoDownloaderEnabled' = NotFalse(value)
  /\ savedAtDisable' = SavedNext(NotFalse(value), FALSE)
  /\ last' = Ran("storageGet", NoTab, ToggleOutcome(value, NotFalse(value)))
  /\ response' = NoResponse
  /\ offSinceStart' = (offSinceStart /\ ~NotFalse(value))
  /\ UNCHANGED others /\ UNCHANGED <<detectedVideos, now, nextSweep, stored>>

\* background.js:11-15; value "absent" is a change that does not name the
\* flag.  The change of the stored flag and the run of the listener it
\* causes are one step.
OnStorageChanged(area, value) ==
  LET applies == area = "local" /\ value # "absent"
      enabledAfter == IF applies THEN NotFalse(value) ELSE videoDownloaderEnabled
  IN /\ videoDownloaderEnabled' = enabledAfter
     /\ stored' = IF applies THEN value ELSE stored
     /\ offSinceStart' = (offSinceStart /\ ~(applies /\ enabledAfter))
     /\ savedAtDisable' = SavedNext(enabledAfter, FALSE)
     /\ last' = Ran("storageChanged", NoTab,
                    IF applies THEN ToggleOutcome(value, enabledAfter) ELSE "ignored")
     /\ response' = NoResponse
     /\ UNCHANGED others /\ UNCHANGED <<detectedVideos, startupReadPending, now, nextSweep>>

\* background.js:34-83
OnBeforeRequest(details) ==
  /\ detectedVideos' =
       onBeforeRequest(detectedVideos, videoDownloaderEnabled, details, now)
  /\ last' = Ran("onBeforeRequest", details.tabId,
                 ObserverOutcome(detectedVideos, videoDownloaderEnabled, details,
                                 UrlFacts[details.url].throws,
                                 ~UrlFacts[details.url].excluded /\ UrlFacts[details.url].accepted))
  /\ response' = NoResponse
  /\ UNCHANGED others /\ UNCHANGED <<videoDownloaderEnabled, startupReadPending, now, nextSweep,
                 savedAtDisable, stored, offSinceStart>>

\* background.js:86-123
OnHeadersReceived(details) ==
  /\ detectedVideos' =
       onHeadersReceived(detectedVideos, videoDownloaderEnabled, details, now)
  /\ last' = Ran("onHeadersReceived", details.tabId,
                 ObserverOutcome(detectedVideos, videoDownloaderEnabled, details,
                                 HeaderFacts[details.responseHeaders].throws,
                                 HeaderFacts[details.responseHeaders].accepted))
  /\ response' = NoResponse
  /\ UNCHANGED others /\ UNCHANGED <<videoDownloaderEnabled, startupReadPending, now, nextSweep,
                 savedAtDisable, stored, offSinceStart>>

\* faulty variant: a tab closed while detection is off keeps its entry
OnRemovedGated(tabId) ==
  /\ detectedVideos' =
       IF videoDownloaderEnabled THEN Delete(detectedVideos, tabId) ELSE detectedVideos
  /\ savedAtDisable' = SavedNext(videoDownloaderEnabled, TRUE)
  /\ last' = Ran("onRemoved", tabId,
                 IF tabId \in DOMAIN detectedVideos THEN "removed" ELSE "absent")
  /\ response' = NoResponse
  /\ UNCHANGED others /\ UNCHANGED <<videoDownloaderEnabled, startupReadPending, now, nextSweep,
                 stored, offSinceStart>>

\* background.js:126-128
OnRemoved(tabId) ==
  /\ detectedVideos' = Delete(detectedVideos, tabId)
  /\ savedAtDisable' = SavedNext(videoDownloaderEnabled, TRUE)
  /\ last' = Ran("onRemoved", tabId,
                 IF tabId \in DOMAIN detectedVideos THEN "removed" ELSE "absent")
  /\ response' = NoResponse
  /\ UNCHANGED others /\ UNCHANGED <<videoDownloaderEnabled, startupReadPending, now, nextSweep,
                 stored, offSinceStart>>

\* faulty variant: turning detection off empties the registry
SetVideoDownloaderEnabledClears(value) ==
  /\ videoDownloaderEnabled' = NotFalse(value)
  /\ detectedVideos' = IF NotFalse(value) THEN detectedVideos ELSE EmptyRegistry
  /\ response' = [success |-> TRUE, enabled |-> NotFalse(value)]
  /\ savedAtDisable' = SavedNext(NotFalse(value), FALSE)
  /\ last' = Ran("setVideoDownloaderEnabled", NoTab,
                 ToggleOutcome(value, NotFalse(value)))
  /\ offSinceStart' = (offSinceStart /\ ~NotFalse(value))
  /\ UNCHANGED others /\ UNCHANGED <<startupReadPending, now, nextSweep, stored>>

\* faulty variant: the answer always says enabled
setEnabledResponseOn(enabled) == [success |-> TRUE, enabled |-> TRUE]

\* background.js:135-137
setEnabledResponse(enabled) == [success |-> TRUE, enabled |-> enabled]

SetVideoDownloaderEnabled(value) ==
  /\ videoDownloaderEnabled' = NotFalse(value)
  /\ response' = setEnabledResponse(NotFalse(value))
  /\ savedAtDisable' = SavedNext(NotFalse(value), FALSE)
  /\ last' = Ran("setVideoDownloaderEnabled", NoTab,
                 ToggleOutcome(value, NotFalse(value)))
  /\ offSinceStart' = (offSinceStart /\ ~NotFalse(value))
  /\ UNCHANGED others /\ UNCHANGED <<detectedVideos, startupReadPending, now, nextSweep, stored>>

\* faulty variant: the list is answered newest first
getResponseNewestFirst(videos, enabled, tabId) ==
  IF ~enabled
  THEN [videos |-> <<>>, disabled |-> TRUE]
  ELSE [videos |-> [i \in 1..Len(ListOf(videos, tabId)) |->
                      ListOf(videos, tabId)[Len(ListOf(videos, tabId)) + 1 - i]]]

\* background.js:138-146: the answer to getDetectedVideos
getResponse(videos, enabled, tabId) ==
  IF ~enabled
  THEN [videos |-> <<>>, disabled |-> TRUE]
  ELSE [videos |-> ListOf(videos, tabId)]

GetDetectedVideos(tabId) ==
  /\ response' = getResponse(detectedVideos, videoDownloaderEnabled, tabId)
  /\ last' = Ran("getDetectedVideos", tabId,
                 IF videoDownloaderEnabled THEN "answered" ELSE "disabled")
  /\ UNCHANGED others /\ UNCHANGED <<detectedVideos, videoDownloaderEnabled, startupReadPending, now,
                 nextSweep, savedAtDisable, stored, offSinceStart>>

\* faulty variant: clearing does nothing
clearVideosNothing(videos, enabled, tabId) == videos

\* faulty variant: clearing does not look at the toggle
clearVideosUngated(videos, enabled, tabId) == Put(videos, tabId, <<>>)

\* faulty variant: clearing empties the list of every tab
clearVideosEveryTab(videos, enabled, tabId) ==
  IF ~enabled THEN videos
  ELSE [t \in DOMAIN Put(videos, tabId, <<>>) |-> <<>>]

\* background.js:147-156: the registry after, and the answer to, clearDetectedVideos
clearVideos(videos, enabled, tabId) ==
  IF ~enabled THEN videos ELSE Put(videos, tabId, <<>>)

\* faulty variant: a clear while detection is off is answered with a failure
clearResponseFailure(enabled) ==
  IF ~enabled THEN [success |-> FALSE, error |-> "disabled"] ELSE [success |-> TRUE]

clearResponse(enabled) ==
  IF ~enabled THEN [success |-> TRUE, disabled |-> TRUE] ELSE [success |-> TRUE]

ClearDetectedVideos(tabId) ==
  /\ detectedVideos' = clearVideos(detectedVideos, videoDownloaderEnabled, tabId)
  /\ response' = clearResponse(videoDownloaderEnabled)
  /\ savedAtDisable' = SavedNext(videoDownloaderEnabled, TRUE)
  /\ last' = Ran("clearDetectedVideos", tabId,
                 IF videoDownloaderEnabled THEN "cleared" ELSE "disabled")
  /\ UNCHANGED others /\ UNCHANGED <<videoDownloaderEnabled, startupReadPending, now, nextSweep,
                 stored, offSinceStart>>

\* faulty variant: the interval callback returns at once while detection is off
SweepWhenEnabled(sweeps) ==
  /\ nextSweep <= sweeps * SweepInterval
  /\ now' = nextSweep
  /\ detectedVideos' = IF videoDownloaderEnabled
                       THEN sweep(detectedVideos, nextSweep) ELSE detectedVideos
  /\ nextSweep' = nextSweep + SweepInterval
  /\ savedAtDisable' = SavedNext(videoDownloaderEnabled, TRUE)
  /\ last' = Ran("sweep", NoTab, "kept")
  /\ response' = NoResponse
  /\ UNCHANGED others /\ UNCHANGED <<videoDownloaderEnabled, startupReadPending, stored, offSinceStart>>

\* background.js:166-179: the interval callback; it runs at the time it is
\* due, which is when the clock gets there
Sweep(sweeps) ==
  /\ nextSweep <= sweeps * SweepInterval
  /\ now' = nextSweep
  /\ detectedVideos' = sweep(detectedVideos, nextSweep)
  /\ nextSweep' = nextSweep + SweepInterval
  /\ savedAtDisable' = SavedNext(videoDownloaderEnabled, TRUE)
  /\ last' = Ran("sweep", NoTab,
                 IF sweep(detectedVideos, nextSweep) = detectedVideos
                 THEN "kept" ELSE "evicted")
  /\ response' = NoResponse
  /\ UNCHANGED others /\ UNCHANGED <<videoDownloaderEnabled, startupReadPending, stored, offSinceStart>>

\* time passes between two sweeps: by a millisecond from the time of a
\* sweep, or up to the millisecond before the next one
Tick(d, sweeps) ==
  /\ d > 0
  /\ now + d < nextSweep
  /\ nextSweep <= sweeps * SweepInterval
  /\ d = 1 => now = nextSweep - SweepInterval
  /\ now' = now + d
  /\ last' = Ran("tick", NoTab, "")
  /\ response' = NoResponse
  /\ UNCHANGED others /\ UNCHANGED <<detectedVideos, videoDownloaderEnabled, startupReadPending,
                 nextSweep, savedAtDisable, stored, offSinceStart>>

----------------------------------------------------------------------------
(* Spec: every handler, all requests, two tabs, one sweep interval *)

Next ==
  \/ \E value \in FlagValues : StorageGetCallback(value)
  \/ \E area \in {"local", "sync"}, value \in FlagValues \cup {"absent"} :
       OnStorageChanged(area, value)
  \/ \E details \in DetailsOf(Tabs \cup {NoTab}, ObservedRequests) :
       OnBeforeRequest(details) /\ RecordCount(detectedVideos') <= MaxRecords
  \/ \E details \in DetailsOf(Tabs \cup {NoTab}, ObservedRequests) :
       OnHeadersReceived(details) /\ RecordCount(detectedVideos') <= MaxRecords
  \/ \E tabId \in Tabs : OnRemoved(tabId)
  \/ \E value \in FlagValues : SetVideoDownloaderEnabled(value)
  \/ \E tabId \in Tabs : GetDetectedVideos(tabId)
  \/ \E tabId \in Tabs : ClearDetectedVideos(tabId)
  \/ Sweep(MaxSweeps)
  \/ \E d \in {1} : Tick(d, MaxSweeps)

Spec == Init /\ [][Next]_vars

----------------------------------------------------------------------------
(* SpecAging: a video and a segment observed during the first MaxSweeps    *)
(* sweep intervals, the toggle left on, and time running on for            *)
(* AgingSweeps intervals, the sweeps it takes the records to expire        *)

Observing == now <= MaxSweeps * SweepInterval

NextAging ==
  \/ \E details \in DetailsOf(Tabs, {ReqMovie, ReqSegment}) :
       /\ Observing
       /\ OnBeforeRequest(details)
       /\ RecordCount(detectedVideos') <= MaxRecords
  \/ \E details \in DetailsOf(Tabs, {ReqMovie, ReqSegment}) :
       /\ Observing
       /\ OnHeadersReceived(details)
       /\ RecordCount(detectedVideos') <= MaxRecords
  \/ \E tabId \in Tabs : OnRemoved(tabId)
  \/ \E tabId \in Tabs : GetDetectedVideos(tabId)
  \/ \E tabId \in Tabs : ClearDetectedVideos(tabId)
  \/ Sweep(AgingSweeps)
  \/ \E d \in {1, nextSweep - now - 1} : Tick(d, AgingSweeps)

SpecAging == Init /\ [][NextAging]_vars

----------------------------------------------------------------------------
(* SpecFull: a video and a segment observed, the toggle set by message,    *)
(* from a registry in which tab 1 already holds maxPerTab - 1 or maxPerTab *)
(* videos, all observed at time 0                                          *)

\* http://x/<i>.mp4, for i < 100
FillerUrl(i) ==
  <<"h","t","t","p",":","/","/","x","/">>
    \o <<DigitChars[(i \div 10) + 1], DigitChars[(i % 10) + 1]>>
    \o <<".","m","p","4">>

Fillers(n) == [i \in 1..n |-> NetworkRecord(FillerUrl(i), 0)]

InitFull ==
  /\ \E n \in {maxPerTab - 1, maxPerTab} :
       detectedVideos = Put(EmptyRegistry, 1, Fillers(n))
  /\ videoDownloaderEnabled = TRUE
  /\ startupReadPending = TRUE
  /\ now = 0
  /\ nextSweep = SweepInterval
  /\ last = Ran("load", NoTab, "")
  /\ response = NoResponse
  /\ savedAtDisable = NotSaved
  /\ stored = "true"
  /\ offSinceStart = FALSE
  /\ OthersInit

NextFull ==
  \/ \E details \in DetailsOf(Tabs, {ReqMovie, ReqSegment}) :
       OnBeforeRequest(details) /\ RecordCount(detectedVideos') <= MaxRecords
  \/ \E details \in DetailsOf(Tabs, {ReqMovie, ReqSegment}) :
       OnHeadersReceived(details) /\ RecordCount(detectedVideos') <= MaxRecords
  \/ \E tabId \in Tabs : OnRemoved(tabId)
  \/ \E value \in {"true", "false"} : SetVideoDownloaderEnabled(value)
  \/ \E tabId \in Tabs : GetDetectedVideos(tabId)
  \/ \E tabId \in Tabs : ClearDetectedVideos(tabId)
  \/ Sweep(MaxSweeps)
  \/ \E d \in {1} : Tick(d, MaxSweeps)

SpecFull == InitFull /\ [][NextFull]_vars

----------------------------------------------------------------------------
(* SpecProbe: one tab and all the requests, the well-formed and the        *)
(* malformed, with the list asked for, cleared and the tab closed; the     *)
(* toggle is left as the script sets it                                    *)

ProbeTab == 1
ProbeDetails == DetailsOf({ProbeTab, NoTab}, KnownRequests)

NextProbe ==
  \/ \E details \in ProbeDetails :
       OnBeforeRequest(details) /\ RecordCount(detectedVideos') <= MaxRecords
  \/ \E details \in ProbeDetails :
       OnHeadersReceived(details) /\ RecordCount(detectedVideos') <= MaxRecords
  \/ OnRemoved(ProbeTab)
  \/ GetDetectedVideos(ProbeTab)
  \/ ClearDetectedVideos(ProbeTab)

SpecProbe == Init /\ [][NextProbe]_vars

----------------------------------------------------------------------------
(* SpecLive: one tab, a video and a segment observed during the first      *)
(* MaxSweeps intervals, the toggle set by message at any time, the list    *)
(* cleared while a sweep is still to come, and the interval timer, which   *)
(* nothing cancels, firing AgingSweeps times                               *)

LiveTab == 1
SweepToCome == nextSweep <= AgingSweeps * SweepInterval

NextLive ==
  \/ \E details \in DetailsOf({LiveTab}, {ReqMovie, ReqSegment}) :
       /\ Observing
       /\ OnBeforeRequest(details)
       /\ RecordCount(detectedVideos') <= MaxRecords
  \/ \E details \in DetailsOf({LiveTab}, {ReqMovie, ReqSegment}) :
       /\ Observing
       /\ OnHeadersReceived(details)
       /\ RecordCount(detectedVideos') <= MaxRecords
  \/ \E value \in {"true", "false"} : SetVideoDownloaderEnabled(value)
  \/ SweepToCome /\ ClearDetectedVideos(LiveTab)
  \/ Sweep(AgingSweeps)
  \/ \E d \in {1, nextSweep - now - 1} : Tick(d, AgingSweeps)

SpecLive == Init /\ [][NextLive]_vars /\ WF_vars(Sweep(AgingSweeps))

----------------------------------------------------------------------------
(* SpecOrder: tab 1 holds maxPerTab - 1 videos observed at time 0; a video *)
(* and a segment are observed during the first MaxSweeps intervals and     *)
(* time runs on for AgingSweeps intervals                                  *)

InitOrder ==
  /\ detectedVideos = Put(EmptyRegistry, 1, Fillers(maxPerTab - 1))
  /\ videoDownloaderEnabled = TRUE
  /\ startupReadPending = TRUE
  /\ now = 0
  /\ nextSweep = SweepInterval
  /\ last = Ran("load", NoTab, "")
  /\ response = NoResponse
  /\ savedAtDisable = NotSaved
  /\ stored = "true"
  /\ offSinceStart = FALSE
  /\ OthersInit

NextOrder ==
  \/ \E details \in DetailsOf({1}, {ReqMovie, ReqSegment}) :
       /\ Observing
       /\ OnBeforeRequest(details)
       /\ RecordCount(detectedVideos') <= MaxRecords
  \/ \E details \in DetailsOf({1}, {ReqMovie, ReqSegment}) :
       /\ Observing
       /\ OnHeadersReceived(details)
       /\ RecordCount(detectedVideos') <= MaxRecords
  \/ GetDetectedVideos(1)
  \/ Sweep(AgingSweeps)
  \/ \E d \in {1, nextSweep - now - 1} : Tick(d, AgingSweeps)

SpecOrder == InitOrder /\ [][NextOrder]_vars

----------------------------------------------------------------------------
(* The downloadBlob request of the content script: content.js:145-172 *)

\* a request that was accepted and has no response yet
Pending(p) == p.accepted /\ p.responses = <<>>

\* history: the stored result of a request that still waits is taken away
Rob(ps, slot, taker) ==
  IF slot = NoDownloadResult
  THEN ps
  ELSE [i \in DOMAIN ps |->
          IF i = slot.req /\ i # taker /\ Pending(ps[i])
          THEN [ps[i] EXCEPT !.robbed = TRUE]
          ELSE ps[i]]

Poll(t, url, accepted, responses) ==
  [tab |-> t, url |-> url, attempts |-> 0, due |-> now + FirstDelay,
   startedAt |-> now, accepted |-> accepted, responses |-> responses,
   robbed |-> FALSE]

Answer(result, from) == [response |-> result, at |-> now, from |-> from]

\* content.js:129-132 and 145-172: the onMessage listener for downloadBlob
DownloadBlob(t, url) ==
  /\ IF ~content[t].videoDownloaderEnabled
     THEN /\ polls' = Append(polls, Poll(t, url, FALSE, <<Answer(DownloaderDisabled, 0)>>))
          /\ UNCHANGED <<content, windowMessages>>
     ELSE /\ content' = [content EXCEPT ![t].lastDownloadResult = NoDownloadResult]
          /\ windowMessages' =
               [windowMessages EXCEPT
                  ![t] = Append(@, [type |-> "DOWNLOAD_BLOB", url |-> url,
                                   req |-> Len(polls) + 1, at |-> now])]
          /\ polls' = Append(Rob(polls, content[t].lastDownloadResult, 0),
                             Poll(t, url, TRUE, <<>>))
  /\ UNCHANGED <<injectedLoaded, now>>
  /\ UNCHANGED <<toggleUi, tabsUi, pageWorld>>
  /\ UNCHANGED background

\* faulty variant: one more retry
MayRetryInclusive(attempts) == attempts <= maxAttempts

\* content.js:162
MayRetry(attempts) == attempts < maxAttempts

\* content.js:157-170: the timer callback of request id, at the time it is
\* due; timers due at the same time run in the order they were set
CheckResult(id) ==
  /\ id \in DOMAIN polls
  /\ Pending(polls[id])
  /\ polls[id].due = now
  /\ \A i \in DOMAIN polls : i < id /\ Pending(polls[i]) => polls[i].due # now
  /\ LET t == polls[id].tab
         slot == content[t].lastDownloadResult
     IN IF slot # NoDownloadResult
        THEN /\ content' = [content EXCEPT ![t].lastDownloadResult = NoDownloadResult]
             /\ polls' = [Rob(polls, slot, id) EXCEPT
                            ![id].responses = <<Answer(slot.result, slot.req)>>]
        ELSE IF MayRetry(polls[id].attempts)
        THEN /\ polls' = [polls EXCEPT ![id].attempts = @ + 1,
                                       ![id].due = now + PollDelay]
             /\ UNCHANGED content
        ELSE /\ polls' = [polls EXCEPT ![id].responses = <<Answer(DownloadTimeout, 0)>>]
             /\ UNCHANGED content
  /\ UNCHANGED <<injectedLoaded, windowMessages, now>>
  /\ UNCHANGED <<toggleUi, tabsUi, pageWorld>>
  /\ UNCHANGED background

\* the oldest message posted on the window of tab t is dispatched to the
\* listeners of the window: content.js:10-34 (a DOWNLOAD_RESULT is stored
\* while the script is enabled) and injected.js:380-480 (a DOWNLOAD_BLOB is
\* answered with a DOWNLOAD_RESULT, if the script was loaded)
DispatchMessage(t) ==
  /\ windowMessages[t] # <<>>
  /\ LET m == Head(windowMessages[t])
     IN IF m.type = "DOWNLOAD_BLOB"
        THEN /\ windowMessages' =
                  [windowMessages EXCEPT
                     ![t] = IF injectedLoaded[t]
                            THEN Append(Tail(@),
                                        [type |-> "DOWNLOAD_RESULT",
                                         result |-> downloadBlob(pageWorld[t], m.url).result,
                                         req |-> m.req, at |-> now])
                            ELSE Tail(@)]
             /\ pageWorld' =
                  IF injectedLoaded[t]
                  THEN [pageWorld EXCEPT ![t] = downloadBlob(@, m.url).world]
                  ELSE pageWorld
             /\ UNCHANGED content
        ELSE /\ windowMessages' = [windowMessages EXCEPT ![t] = Tail(@)]
             /\ UNCHANGED pageWorld
             /\ content' = [content EXCEPT ![t] = onWindowMessage(@, m)]
  /\ UNCHANGED <<injectedLoaded, polls, now>>
  /\ UNCHANGED <<toggleUi, tabsUi>>
  /\ UNCHANGED background

\* the times at which a check is due
Dues == {polls[i].due : i \in {j \in DOMAIN polls : Pending(polls[j])}}

\* time passes, up to the next check that is due, or from a multiple of the
\* poll delay by one millisecond; a message posted on a window is dispatched
\* within MaxLatency milliseconds
Advance(d) ==
  /\ d > 0
  /\ \A due \in Dues : now + d <= due
  /\ \A t \in Tabs : \A k \in 1..Len(windowMessages[t]) :
       now + d <= windowMessages[t][k].at + MaxLatency
  /\ d = 1 \/ now + d \in Dues
  /\ d = 1 => now % PollDelay = 0
  /\ now' = now + d
  /\ UNCHANGED <<content, injectedLoaded, windowMessages, polls>>
  /\ UNCHANGED <<toggleUi, tabsUi, pageWorld>>
  /\ UNCHANGED background

----------------------------------------------------------------------------
(* SpecDownload: one tab; the flag read at start-up is on or off and the   *)
(* injected script is loaded or blocked; up to MaxRequests downloadBlob    *)
(* requests, a further one arriving while an earlier one has made at most  *)
(* OverlapPolls retries, or when none waits                                *)

DownloadTab == 1

InitDownload ==
  /\ stored \in {"true", "false"}
  /\ detectedVideos = EmptyRegistry
  /\ videoDownloaderEnabled = NotFalse(stored)
  /\ startupReadPending = FALSE
  /\ now = 0
  /\ nextSweep = SweepInterval
  /\ last = Ran("load", NoTab, "")
  /\ response = NoResponse
  /\ savedAtDisable = NotSaved
  /\ offSinceStart = (stored = "false")
  /\ content = [t \in Tabs |-> ContentInit(NotFalse(stored))]
  /\ injectedLoaded \in {[t \in Tabs |-> loaded] : loaded \in {NotFalse(stored), FALSE}}
  /\ windowMessages = [t \in Tabs |-> <<>>]
  /\ polls = <<>>
  /\ pageWorld = [t \in Tabs |-> PageInit]
  /\ ToggleInit(NotFalse(stored))
  /\ TabsInit(EmptyWindow)

NextDownload ==
  \/ \E url \in BlobUrls :
       /\ Len(polls) < MaxRequests
       /\ \A i \in DOMAIN polls : Pending(polls[i]) => polls[i].attempts <= OverlapPolls
       /\ DownloadBlob(DownloadTab, url)
  \/ \E id \in 1..MaxRequests : CheckResult(id)
  \/ DispatchMessage(DownloadTab)
  \/ \E d \in {1} \cup {due - now : due \in Dues} : Advance(d)

SpecDownload == InitDownload /\ [][NextDownload]_vars

----------------------------------------------------------------------------
(* The toggle of the popup and the ways its value travels:                 *)
(* part_000:708-739, background.js:10-15 and 135-137, content.js:87-127    *)

FlagOf(enabled) == IF enabled THEN "true" ELSE "false"

\* faulty variant: what waits for a listener is delivered in any order
AnyIn(queue) == 1..Len(queue)

\* what waits for a listener is delivered in the order it was sent
NextIn(queue) == IF queue = <<>> THEN {} ELSE {1}

Without(queue, k) == SubSeq(queue, 1, k - 1) \o SubSeq(queue, k + 1, Len(queue))

\* part_000:733-737 and 708-714: the change handler of the checkbox, up to
\* the call of chrome.storage.local.set; the checkbox showed the flag
\* (line 679), so its new state is the other value
ToggleChanged ==
  /\ popupEnabled' = ~popupEnabled
  /\ clicks' = Append(clicks, [value |-> ~popupEnabled, stage |-> "write",
                               early |-> \E k \in DOMAIN clicks : clicks[k].stage # "done"])
  /\ UNCHANGED <<notifications, messages>>
  /\ UNCHANGED <<content, injectedLoaded, windowMessages, polls, now>>
  /\ UNCHANGED background
  /\ UNCHANGED <<tabsUi, pageWorld>>

\* chrome.storage.local carries out the oldest write that waits; every
\* listener is to be told of a value that changed
StorageSet(k) ==
  /\ k \in DOMAIN clicks
  /\ clicks[k].stage = "write"
  /\ \A j \in DOMAIN clicks : j < k => clicks[j].stage # "write"
  /\ stored' = FlagOf(clicks[k].value)
  /\ notifications' =
       IF stored = FlagOf(clicks[k].value)
       THEN notifications
       ELSE [l \in Listeners |-> Append(notifications[l], FlagOf(clicks[k].value))]
  /\ clicks' = [clicks EXCEPT ![k].stage = "send"]
  /\ UNCHANGED <<popupEnabled, messages>>
  /\ UNCHANGED <<content, injectedLoaded, windowMessages, polls, now>>
  /\ UNCHANGED <<detectedVideos, videoDownloaderEnabled, startupReadPending,
                 nextSweep, last, response, savedAtDisable, offSinceStart>>
  /\ UNCHANGED <<tabsUi, pageWorld>>

\* part_000:716-720: after the write, the message to the background worker
\* with the flag the popup has by now, and the query for the tabs
PopupSend(k) ==
  /\ k \in DOMAIN clicks
  /\ clicks[k].stage = "send"
  /\ messages' = [messages EXCEPT ![Background] = Append(@, FlagOf(popupEnabled))]
  /\ clicks' = [clicks EXCEPT ![k].stage = "query"]
  /\ UNCHANGED <<popupEnabled, notifications>>
  /\ UNCHANGED <<content, injectedLoaded, windowMessages, polls, now>>
  /\ UNCHANGED background
  /\ UNCHANGED <<tabsUi, pageWorld>>

\* part_000:721-726: after the query, the message to every tab
PopupInform(k) ==
  /\ k \in DOMAIN clicks
  /\ clicks[k].stage = "query"
  /\ messages' = [l \in Listeners |->
                    IF l \in Tabs THEN Append(messages[l], FlagOf(popupEnabled))
                    ELSE messages[l]]
  /\ clicks' = [clicks EXCEPT ![k].stage = "done"]
  /\ UNCHANGED <<popupEnabled, notifications>>
  /\ UNCHANGED <<content, injectedLoaded, windowMessages, polls, now>>
  /\ UNCHANGED background
  /\ UNCHANGED <<tabsUi, pageWorld>>

\* background.js:11-15 and 135-137: what either listener does to the worker
BackgroundSet(value, op) ==
  /\ videoDownloaderEnabled' = NotFalse(value)
  /\ savedAtDisable' = SavedNext(NotFalse(value), FALSE)
  /\ last' = Ran(op, NoTab, ToggleOutcome(value, NotFalse(value)))
  /\ offSinceStart' = (offSinceStart /\ ~NotFalse(value))
  /\ UNCHANGED <<detectedVideos, startupReadPending, nextSweep, stored>>

\* background.js:11-15: the onChanged listener is told of a change
BackgroundNotified(k) ==
  /\ k \in NextIn(notifications[Background])
  /\ BackgroundSet(notifications[Background][k], "storageChanged")
  /\ response' = NoResponse
  /\ notifications' = [notifications EXCEPT ![Background] = Without(@, k)]
  /\ UNCHANGED <<popupEnabled, clicks, messages>>
  /\ UNCHANGED <<content, injectedLoaded, windowMessages, polls, now>>
  /\ UNCHANGED <<tabsUi, pageWorld>>

\* background.js:135-137: the onMessage listener gets the popup's message
BackgroundReceives(k) ==
  /\ k \in NextIn(messages[Background])
  /\ BackgroundSet(messages[Background][k], "setVideoDownloaderEnabled")
  /\ response' = setEnabledResponse(NotFalse(messages[Background][k]))
  /\ messages' = [messages EXCEPT ![Background] = Without(@, k)]
  /\ UNCHANGED <<popupEnabled, clicks, notifications>>
  /\ UNCHANGED <<content, injectedLoaded, windowMessages, polls, now>>
  /\ UNCHANGED <<tabsUi, pageWorld>>

\* content.js:87-107: the flag is set, the injection is attempted if it was
\* not, the blobs are forgotten when disabled
setVideoDownloaderState(c, enabled) ==
  LET set == [c EXCEPT !.videoDownloaderEnabled = enabled]
      injected ==
        IF enabled /\ ~c.injectionAttempted
        THEN [injectScript(set) EXCEPT
                !.domListener = @ \/ c.readyState = "loading"]
        ELSE set
  IN IF enabled THEN injected
     ELSE [injected EXCEPT !.detectedBlobs = <<>>,
                           !.clearedBlobs = c.detectedBlobs]

\* content.js:87-107 with 37-84: the content script of tab t is given the
\* flag; a first injection loads injected.js or is blocked (lines 69-78).
\* No listener of the window has a case for the SET_VIDEO_DOWNLOADER_ENABLED
\* message of line 103 (content.js:10-34, injected.js:380-480), so it is not
\* kept among the messages that wait
ContentSet(t, value, loads) ==
  /\ content' = [content EXCEPT ![t] = setVideoDownloaderState(@, NotFalse(value))]
  /\ injectedLoaded' =
       [injectedLoaded EXCEPT
          ![t] = IF NotFalse(value) /\ ~content[t].injectionAttempted THEN loads ELSE @]
  /\ UNCHANGED <<windowMessages, polls, now>>
  /\ UNCHANGED background

\* content.js:113-117: the onChanged listener of tab t is told of a change
ContentNotified(t, k) ==
  /\ k \in NextIn(notifications[t])
  /\ \E loads \in BOOLEAN : ContentSet(t, notifications[t][k], loads)
  /\ notifications' = [notifications EXCEPT ![t] = Without(@, k)]
  /\ UNCHANGED <<popupEnabled, clicks, messages>>
  /\ UNCHANGED <<tabsUi, pageWorld>>

\* content.js:123-127: the onMessage listener of tab t gets the popup's message
ContentReceives(t, k) ==
  /\ k \in NextIn(messages[t])
  /\ \E loads \in BOOLEAN : ContentSet(t, messages[t][k], loads)
  /\ messages' = [messages EXCEPT ![t] = Without(@, k)]
  /\ UNCHANGED <<popupEnabled, clicks, notifications>>
  /\ UNCHANGED <<tabsUi, pageWorld>>

----------------------------------------------------------------------------
(* SpecContent: the content script of one tab from its start: the start-up *)
(* read, changes of the flag, the end of the document's loading, and blob  *)
(* messages posted to the window                                           *)

ContentTab == 1

\* content.js:109-111: the callback of the start-up read
ContentStorageGet(t) ==
  /\ content[t].startupReadPending
  /\ content' = [content EXCEPT
                   ![t] = [setVideoDownloaderState(@, NotFalse(stored))
                             EXCEPT !.startupReadPending = FALSE]]
  /\ \E loads \in BOOLEAN :
       injectedLoaded' =
         [injectedLoaded EXCEPT
            ![t] = IF content'[t].injections > content[t].injections
                   THEN loads ELSE @]
  /\ UNCHANGED <<windowMessages, polls, now>>
  /\ UNCHANGED <<toggleUi, tabsUi, pageWorld>>
  /\ UNCHANGED background

\* content.js:113-127: a storage change or a setVideoDownloaderEnabled
\* message gives the script a value of the flag
ContentChanged(t, value) ==
  /\ \E loads \in BOOLEAN : ContentSet(t, value, loads)
  /\ UNCHANGED <<toggleUi, tabsUi, pageWorld>>

\* content.js:93: the listener that line 93 has added runs, once, when the
\* document has been parsed
DOMContentLoaded(t) ==
  /\ content[t].readyState = "loading"
  /\ content' = [content EXCEPT
                   ![t] = [(IF @.domListener THEN injectScript(@) ELSE @)
                             EXCEPT !.readyState = "interactive",
                                    !.domListener = FALSE]]
  /\ \E loads \in BOOLEAN :
       injectedLoaded' =
         [injectedLoaded EXCEPT
            ![t] = IF content'[t].injections > content[t].injections
                   THEN loads ELSE @]
  /\ UNCHANGED <<windowMessages, polls, now>>
  /\ UNCHANGED <<toggleUi, tabsUi, pageWorld>>
  /\ UNCHANGED background

\* the blob messages a script of the page can post to the window
BlobLists == {<<>>, <<UrlBlobStored>>, <<UrlBlobUnknown, UrlBlobStored>>}
BlobMessages ==
  {[type |-> "BLOB_DETECTED", blob |-> url, at |-> now] : url \in BlobUrls}
    \cup {[type |-> "BLOBS_LIST", blobs |-> blobs, at |-> now] : blobs \in BlobLists}

\* content.js:10-21: a message for the listener is posted to the window
PostBlobMessage(t, m) ==
  /\ windowMessages' = [windowMessages EXCEPT ![t] = Append(@, m)]
  /\ UNCHANGED <<content, injectedLoaded, polls, now>>
  /\ UNCHANGED <<toggleUi, tabsUi, pageWorld>>
  /\ UNCHANGED background

InitContent ==
  /\ stored \in {"true", "false"}
  /\ detectedVideos = EmptyRegistry
  /\ videoDownloaderEnabled = NotFalse(stored)
  /\ startupReadPending = FALSE
  /\ now = 0
  /\ nextSweep = SweepInterval
  /\ last = Ran("load", NoTab, "")
  /\ response = NoResponse
  /\ savedAtDisable = NotSaved
  /\ offSinceStart = (stored = "false")
  /\ \E readyState \in {"loading", "complete"} :
       content = [t \in Tabs |-> ContentStart(readyState)]
  /\ injectedLoaded = [t \in Tabs |-> FALSE]
  /\ windowMessages = [t \in Tabs |-> <<>>]
  /\ polls = <<>>
  /\ pageWorld = [t \in Tabs |-> PageInit]
  /\ ToggleInit(NotFalse(stored))
  /\ TabsInit(EmptyWindow)

NextContent ==
  \/ ContentStorageGet(ContentTab)
  \/ \E value \in {"true", "false"} : ContentChanged(ContentTab, value)
  \/ DOMContentLoaded(ContentTab)
  \/ \E m \in BlobMessages :
       /\ Len(windowMessages[ContentTab]) + Len(content[ContentTab].detectedBlobs) < MaxBlobs
       /\ PostBlobMessage(ContentTab, m)
  \/ DispatchMessage(ContentTab)

SpecContent == InitContent /\ [][NextContent]_vars

----------------------------------------------------------------------------
(* SpecPage: the page script of one tab: the page makes a URL for its      *)
(* MediaSource, adds source buffers and appends to them, and DOWNLOAD_BLOB *)
(* messages are posted and handled                                         *)

PageTab == 1
PageUrls == BlobUrls \cup {UrlMse}
PageObjects == {[mediaSource |-> ms] : ms \in MediaSources}
\* an ArrayBuffer without bytes, the second byte of an ArrayBuffer of two
\* bytes, and a value that is no buffer
Buffers == {ArrayBuffer(<<>>), View(<<1, 2>>, 1, 1), NotABuffer}

\* injected.js:284-315: the page calls URL.createObjectURL
CreateObjectURL(t, url, object) ==
  /\ pageWorld' = [pageWorld EXCEPT ![t] = createObjectURL(@, url, object)]
  /\ UNCHANGED <<background, now, page, toggleUi, tabsUi>>

\* injected.js:245-278: the page calls addSourceBuffer of MediaSource ms
AddSourceBuffer(t, ms, mimeType) ==
  /\ pageWorld' = [pageWorld EXCEPT ![t] = addSourceBuffer(@, ms, mimeType)]
  /\ UNCHANGED <<background, now, page, toggleUi, tabsUi>>

\* injected.js:259-273: the page calls appendBuffer of source buffer k of ms
AppendBuffer(t, ms, k, buffer, fails) ==
  /\ ms \in DOMAIN pageWorld[t].mseCaptures
  /\ k \in DOMAIN pageWorld[t].mseCaptures[ms].sources
  /\ pageWorld' =
       [pageWorld EXCEPT
          ![t].mseCaptures[ms].sources[k] = appendBuffer(@, buffer, fails),
          ![t].hookCalls = @ + 1]
  /\ UNCHANGED <<background, now, page, toggleUi, tabsUi>>

\* content.js:152: a DOWNLOAD_BLOB message is posted to the window
PostDownloadBlob(t, url) ==
  /\ windowMessages' =
       [windowMessages EXCEPT
          ![t] = Append(@, [type |-> "DOWNLOAD_BLOB", url |-> url,
                           req |-> 0, at |-> now])]
  /\ UNCHANGED <<content, injectedLoaded, polls, now>>
  /\ UNCHANGED <<toggleUi, tabsUi, pageWorld>>
  /\ UNCHANGED background

SourcesOf(world, ms) ==
  IF ms \in DOMAIN world.mseCaptures THEN world.mseCaptures[ms].sources ELSE <<>>

NextPage ==
  \/ \E object \in PageObjects : CreateObjectURL(PageTab, UrlMse, object)
  \/ \E ms \in MediaSources, mimeType \in {MimeVideo, MimeAudio} :
       /\ Len(SourcesOf(pageWorld[PageTab], ms)) < MaxSources
       /\ AddSourceBuffer(PageTab, ms, mimeType)
  \/ \E ms \in MediaSources, k \in 1..MaxSources, buffer \in Buffers,
        fails \in BOOLEAN :
       /\ k \in DOMAIN SourcesOf(pageWorld[PageTab], ms)
       /\ Len(SourcesOf(pageWorld[PageTab], ms)[k].calls) < MaxAppends
       /\ AppendBuffer(PageTab, ms, k, buffer, fails)
  \/ \E url \in PageUrls :
       /\ windowMessages[PageTab] = <<>>
       /\ PostDownloadBlob(PageTab, url)
  \/ DispatchMessage(PageTab)

SpecPage == Init /\ [][NextPage]_vars

----------------------------------------------------------------------------
(* SpecToggle: the worker, two tabs and the popup have read the stored     *)
(* flag; the toggle is changed up to MaxClicks times, at any moment        *)

InitToggle ==
  /\ stored \in FlagValues
  /\ detectedVideos = EmptyRegistry
  /\ videoDownloaderEnabled = NotFalse(stored)
  /\ startupReadPending = FALSE
  /\ now = 0
  /\ nextSweep = SweepInterval
  /\ last = Ran("load", NoTab, "")
  /\ response = NoResponse
  /\ savedAtDisable = NotSaved
  /\ offSinceStart = (stored = "false")
  /\ content = [t \in Tabs |-> ContentInit(NotFalse(stored))]
  /\ injectedLoaded = [t \in Tabs |-> NotFalse(stored)]
  /\ windowMessages = [t \in Tabs |-> <<>>]
  /\ polls = <<>>
  /\ pageWorld = [t \in Tabs |-> PageInit]
  /\ ToggleInit(NotFalse(stored))
  /\ TabsInit(EmptyWindow)

NextToggle ==
  \/ Len(clicks) < MaxClicks /\ ToggleChanged
  \/ \E k \in 1..MaxClicks : StorageSet(k)
  \/ \E k \in 1..MaxClicks : PopupSend(k)
  \/ \E k \in 1..MaxClicks : PopupInform(k)
  \/ \E k \in 1..MaxClicks : BackgroundNotified(k)
  \/ \E k \in 1..MaxClicks : BackgroundReceives(k)
  \/ \E t \in Tabs, k \in 1..MaxClicks : ContentNotified(t, k)
  \/ \E t \in Tabs, k \in 1..MaxClicks : ContentReceives(t, k)

SpecToggle == InitToggle /\ [][NextToggle]_vars

----------------------------------------------------------------------------
(* Copy All Tabs and Open Tabs of the popup: part_000:17-49 and 59-252     *)

\* A text is a sequence of characters; a character is [c |-> "a"], and the
\* whole output of btoa(JSON) for an array of strings is the one character
\* [b64 |-> array], which atob and JSON.parse give back
Ch(c) == [c |-> c]
Text(str) == [i \in DOMAIN str |-> Ch(str[i])]
Plain(text) == [i \in DOMAIN text |-> IF "c" \in DOMAIN text[i] THEN text[i].c ELSE "="]
IsEncoded(ch) == "b64" \in DOMAIN ch

Newline == Ch("\n")
Bar == Ch("|")
IsSpace(ch) == ch \in {Ch(" "), Ch("\t"), Ch("\r"), Ch("\n")}

\* the value null of a group title or color
Null == <<"null">>
\* part_000:87  the group of a tab that is in none
NullGroup == [null |-> TRUE]

First(set) == CHOOSE i \in set : \A j \in set : i <= j
Final(set) == CHOOSE i \in set : \A j \in set : j <= i

\* String.prototype.trim
trim(text) ==
  LET solid == {i \in DOMAIN text : ~IsSpace(text[i])}
  IN IF solid = {} THEN <<>> ELSE SubSeq(text, First(solid), Final(solid))

\* String.prototype.split with a separator of one character
RECURSIVE split(_, _)
split(text, sep) ==
  LET at == {i \in DOMAIN text : text[i] = sep}
  IN IF at = {}
     THEN <<text>>
     ELSE <<SubSeq(text, 1, First(at) - 1)>>
            \o split(SubSeq(text, First(at) + 1, Len(text)), sep)

\* Array.prototype.join
RECURSIVE join(_, _)
join(lines, sep) ==
  IF lines = <<>> THEN <<>>
  ELSE IF Len(lines) = 1 THEN lines[1]
  ELSE lines[1] \o sep \o join(Tail(lines), sep)

RECURSIVE Flatten(_)
Flatten(lists) == IF lists = <<>> THEN <<>> ELSE Head(lists) \o Flatten(Tail(lists))

\* the members of a sequence, each once, in the order they first occur
RECURSIVE Distinct(_)
Distinct(seq) ==
  IF seq = <<>> THEN <<>>
  ELSE LET before == Distinct(SubSeq(seq, 1, Len(seq) - 1))
           x == seq[Len(seq)]
       IN IF \E i \in DOMAIN before : before[i] = x THEN before ELSE Append(before, x)

StrHttp == <<"h","t","t","p",":","/","/">>
StrHttps == <<"h","t","t","p","s",":","/","/">>
StrFile == <<"f","i","l","e",":","/","/">>
StrUntitled == <<"U","n","t","i","t","l","e","d">>
StrSep == <<" ","|"," ">>

\* part_000:18-25: the array that is encoded
TabData(tab, group) ==
  IF group = NullGroup THEN <<tab.url>> ELSE <<tab.url, group.title, group.color>>

encodeTabData(tab, group) == <<[b64 |-> TabData(tab, group)]>>

\* the length of JSON.stringify of an array of strings without escapes, and
\* of its Base64 form
JsonLength(data) ==
  LET lens == [i \in DOMAIN data |-> Len(data[i]) + 2]
      RECURSIVE Sum(_)
      Sum(k) == IF k = 0 THEN 0 ELSE lens[k] + Sum(k - 1)
  IN 2 + Sum(Len(data)) + (Len(data) - 1)
Base64Length(n) == 4 * ((n + 2) \div 3)

\* part_000:43-50; a plain line of more than 20 Base64 characters is not
\* among the lines of the model
isEncodedFormat(line) ==
  /\ Len(line) = 1
  /\ IsEncoded(line[1])
  /\ Base64Length(JsonLength(line[1].b64)) > 20

OrNull(str) == IF str = <<>> THEN Null ELSE str

\* part_000:27-40
decodeTabData(line) ==
  LET data == line[1].b64
  IN [url |-> data[1],
      groupTitle |-> IF Len(data) >= 2 THEN OrNull(data[2]) ELSE Null,
      groupColor |-> IF Len(data) >= 3 THEN OrNull(data[3]) ELSE Null]

\* part_000:154-169: one line of the textarea
ParseLine(line) ==
  IF isEncodedFormat(line)
  THEN decodeTabData(line)
  ELSE LET pieces == split(line, Bar)
           parts == [i \in DOMAIN pieces |-> Plain(trim(pieces[i]))]
       IN [url |-> parts[1],
           groupTitle |-> IF Len(parts) >= 2 THEN OrNull(parts[2]) ELSE Null,
           groupColor |-> IF Len(parts) >= 3 THEN OrNull(parts[3]) ELSE Null]

\* part_000:143-146
LinesOf(text) ==
  LET pieces == split(trim(text), Newline)
      trimmed == [i \in DOMAIN pieces |-> trim(pieces[i])]
  IN SelectSeq(trimmed, LAMBDA line : line # <<>>)

\* part_000:172-176
IsValidUrl(url) ==
  startsWith(url, StrHttp) \/ startsWith(url, StrHttps) \/ startsWith(url, StrFile)

\* part_000:189 and 190
HasGroup(tab) == tab.groupTitle # Null /\ tab.groupColor # Null
KeyOf(tab) == tab.groupTitle \o <<"|">> \o tab.groupColor

\* part_000:178-235: the tabs and groups the handler asks the browser for,
\* which carries out every call: the tabs without group first, then group
\* by group in the order the keys first occur; a new group takes the next
\* id, and its title and color are the first two pieces of the key
openTabs(tabs, groups, text, restoreGroups) ==
  LET lines == LinesOf(text)
      tabsData == [i \in DOMAIN lines |-> ParseLine(lines[i])]
      validTabs == SelectSeq(tabsData, LAMBDA tab : IsValidUrl(tab.url))
      ungroupedTabs ==
        IF restoreGroups
        THEN SelectSeq(validTabs, LAMBDA tab : ~HasGroup(tab))
        ELSE validTabs
      groupedTabs ==
        IF restoreGroups THEN SelectSeq(validTabs, HasGroup) ELSE <<>>
      keys == Distinct([i \in DOMAIN groupedTabs |-> KeyOf(groupedTabs[i])])
      members(k) == SelectSeq(groupedTabs, LAMBDA tab : KeyOf(tab) = keys[k])
      created(k) == [i \in DOMAIN members(k) |->
                       [url |-> members(k)[i].url, groupId |-> Len(groups) + k]]
      newGroup(k) == LET piece == split(keys[k], "|")
                     IN [title |-> piece[1], color |-> piece[2]]
  IN IF trim(text) = <<>> \/ lines = <<>> \/ validTabs = <<>>
     THEN [tabs |-> tabs, groups |-> groups, status |-> "error"]
     ELSE [tabs |-> tabs
                    \o [i \in DOMAIN ungroupedTabs |->
                          [url |-> ungroupedTabs[i].url, groupId |-> NoGroup]]
                    \o Flatten([k \in DOMAIN keys |-> created(k)]),
           groups |-> groups \o [k \in DOMAIN keys |-> newGroup(k)],
           status |-> "success"]

\* part_000:127-252: the click handler of Open Tabs
OpenTabs(restoreGroups) ==
  LET result == openTabs(browserTabs, tabGroups, urlInput, restoreGroups)
  IN /\ browserTabs' = result.tabs
     /\ tabGroups' = result.groups
     /\ popupLast' = [op |-> "openTabs", restore |-> restoreGroups,
                      status |-> result.status]
     /\ UNCHANGED <<urlInput, clipboard>>
     /\ UNCHANGED <<background, now, page, toggleUi, pageWorld>>

\* part_000:70-80 and 86-96: the group of a tab as the handler looks it up
GroupOf(tab, groups, includeGroups) ==
  IF includeGroups /\ tab.groupId # NoGroup /\ tab.groupId \in DOMAIN groups
  THEN [title |-> IF groups[tab.groupId].title = <<>>
                  THEN StrUntitled ELSE groups[tab.groupId].title,
        color |-> groups[tab.groupId].color]
  ELSE NullGroup

\* part_000:82-102: the text that is copied
copyOutput(tabs, groups, includeGroups, useEncoded) ==
  LET line(tab) ==
        LET group == GroupOf(tab, groups, includeGroups)
        IN IF useEncoded THEN encodeTabData(tab, group)
           ELSE IF group # NullGroup
           THEN Text(tab.url \o StrSep \o group.title \o StrSep \o group.color)
           ELSE Text(tab.url)
  IN join([i \in DOMAIN tabs |-> line(tabs[i])], <<Newline>>)

\* part_000:60-125: the click handler of Copy All Tabs
CopyTabs(includeGroups, useEncoded) ==
  /\ clipboard' = copyOutput(browserTabs, tabGroups, includeGroups, useEncoded)
  /\ urlInput' = clipboard'
  /\ popupLast' = [op |-> "copyTabs", restore |-> FALSE, status |-> "success"]
  /\ UNCHANGED <<browserTabs, tabGroups>>
  /\ UNCHANGED <<background, now, page, toggleUi, pageWorld>>

\* the user puts a text into the textarea
Paste(text) ==
  /\ urlInput' = text
  /\ popupLast' = [op |-> "paste", restore |-> FALSE, status |-> ""]
  /\ UNCHANGED <<browserTabs, tabGroups, clipboard>>
  /\ UNCHANGED <<background, now, page, toggleUi, pageWorld>>

----------------------------------------------------------------------------
(* SpecTabs: the popup on one of a few windows; texts are pasted or        *)
(* copied, and opened while the window has at most MaxWindowTabs tabs      *)

UrlA == <<"h","t","t","p",":","/","/","a">>
UrlB == <<"h","t","t","p","s",":","/","/","b">>
UrlC == <<"f","i","l","e",":","/","/","c">>
UrlFtp == <<"f","t","p",":","/","/","d">>
UrlWithBar == <<"h","t","t","p",":","/","/","a","?","q","=","x","|","y">>
TitleWork == <<"W","o","r","k">>
TitleWithBar == <<"a","|","b">>
ColorBlue == <<"b","l","u","e">>
ColorRed == <<"r","e","d">>

Tab(url, groupId) == [url |-> url, groupId |-> groupId]
Group(title, color) == [title |-> title, color |-> color]

Windows ==
  { [tabs |-> <<Tab(UrlA, NoGroup), Tab(UrlB, NoGroup)>>, groups |-> <<>>],
    [tabs |-> <<Tab(UrlA, NoGroup), Tab(UrlB, 1), Tab(UrlC, 1)>>,
     groups |-> <<Group(TitleWork, ColorBlue)>>],
    [tabs |-> <<Tab(UrlB, 1), Tab(UrlA, NoGroup)>>,
     groups |-> <<Group(TitleWork, ColorBlue)>>],
    [tabs |-> <<Tab(UrlA, 1), Tab(UrlB, 2)>>,
     groups |-> <<Group(TitleWork, ColorBlue), Group(TitleWork, ColorBlue)>>],
    [tabs |-> <<Tab(UrlA, 1), Tab(UrlB, 2)>>,
     groups |-> <<Group(TitleWork, ColorBlue), Group(TitleWork, ColorRed)>>],
    [tabs |-> <<Tab(UrlA, 1)>>, groups |-> <<Group(<<>>, ColorRed)>>],
    [tabs |-> <<Tab(UrlWithBar, 1)>>, groups |-> <<Group(TitleWork, ColorBlue)>>],
    [tabs |-> <<Tab(UrlB, 1)>>, groups |-> <<Group(TitleWithBar, ColorBlue)>>],
    [tabs |-> <<Tab(UrlFtp, NoGroup), Tab(UrlA, NoGroup)>>, groups |-> <<>>] }

PastedTexts ==
  { <<>>,
    Text(<<"h","t","t","p","s",":","/","/","b"," ","|"," ","W","o","r","k"," ","|"," ","b","l","u","e","\n","\n"," "," ","h","t","t","p",":","/","/","a"," "," ","\n","f","t","p",":","/","/","d">>),
    Text(<<"f","i","l","e",":","/","/","c"," ","|"," ","W","o","r","k","\n","e","x","a","m","p","l","e",".","c","o","m"," ","|"," ","W","o","r","k"," ","|"," ","r","e","d">>),
    encodeTabData(Tab(UrlB, NoGroup), Group(TitleWithBar, ColorBlue))
      \o <<Newline>> \o Text(UrlA),
    encodeTabData(Tab(UrlA, NoGroup), NullGroup) \o <<Newline>> \o Text(UrlB) }

InitTabs ==
  /\ detectedVideos = EmptyRegistry
  /\ videoDownloaderEnabled = TRUE
  /\ startupReadPending = TRUE
  /\ now = 0
  /\ nextSweep = SweepInterval
  /\ last = Ran("load", NoTab, "")
  /\ response = NoResponse
  /\ savedAtDisable = NotSaved
  /\ stored = "true"
  /\ offSinceStart = FALSE
  /\ content = [t \in Tabs |-> ContentInit(TRUE)]
  /\ injectedLoaded = [t \in Tabs |-> TRUE]
  /\ windowMessages = [t \in Tabs |-> <<>>]
  /\ polls = <<>>
  /\ pageWorld = [t \in Tabs |-> PageInit]
  /\ ToggleInit(TRUE)
  /\ \E window \in Windows : TabsInit(window)

NextTabs ==
  \/ \E includeGroups \in BOOLEAN, useEncoded \in BOOLEAN :
       CopyTabs(includeGroups, useEncoded)
  \/ \E text \in PastedTexts : Paste(text)
  \/ \E restoreGroups \in BOOLEAN :
       Len(browserTabs) <= MaxWindowTabs /\ OpenTabs(restoreGroups)

SpecTabs == InitTabs /\ [][NextTabs]_vars

----------------------------------------------------------------------------
(* SpecDuplicates: the popup on a window of up to MaxDuplicateTabs tabs,   *)
(* some of them with the same URL, in a group or not                       *)

\* the tabs at the positions of a set, in tab order
RECURSIVE TabsAt(_, _)
TabsAt(tabs, positions) ==
  IF tabs = <<>> THEN <<>>
  ELSE TabsAt(SubSeq(tabs, 1, Len(tabs) - 1), positions)
         \o (IF Len(tabs) \in positions THEN <<tabs[Len(tabs)]>> ELSE <<>>)

\* faulty variant: the last tab of each URL is the one that is kept
duplicatesBeforeLast(tabs) ==
  {i \in DOMAIN tabs : \E j \in DOMAIN tabs : j > i /\ tabs[j].url = tabs[i].url}

\* part_000:604-616: the positions of the tabs whose URL is in urlMap when
\* the loop comes to them, i.e. is the URL of an earlier tab
duplicatesToClose(tabs) ==
  {i \in DOMAIN tabs : \E j \in DOMAIN tabs : j < i /\ tabs[j].url = tabs[i].url}

\* part_000:595-637: the click handler of Close Duplicate Tabs
CloseDuplicates ==
  LET closing == duplicatesToClose(browserTabs)
  IN /\ browserTabs' = TabsAt(browserTabs, DOMAIN browserTabs \ closing)
     /\ popupLast' = [op |-> "closeDuplicates", restore |-> FALSE,
                      status |-> "success", closed |-> Cardinality(closing)]
     /\ UNCHANGED <<tabGroups, urlInput, clipboard>>
     /\ UNCHANGED <<background, now, page, toggleUi, pageWorld>>

DuplicateWindows ==
  LET choices == {Tab(url, groupId) : url \in {UrlA, UrlB, UrlC},
                                      groupId \in {NoGroup, 1}}
  IN {[tabs |-> tabs, groups |-> <<Group(TitleWork, ColorBlue)>>] :
        tabs \in UNION {[1..n -> choices] : n \in 0..MaxDuplicateTabs}}

InitDuplicates ==
  /\ detectedVideos = EmptyRegistry
  /\ videoDownloaderEnabled = TRUE
  /\ startupReadPending = TRUE
  /\ now = 0
  /\ nextSweep = SweepInterval
  /\ last = Ran("load", NoTab, "")
  /\ response = NoResponse
  /\ savedAtDisable = NotSaved
  /\ stored = "true"
  /\ offSinceStart = FALSE
  /\ content = [t \in Tabs |-> ContentInit(TRUE)]
  /\ injectedLoaded = [t \in Tabs |-> TRUE]
  /\ windowMessages = [t \in Tabs |-> <<>>]
  /\ polls = <<>>
  /\ pageWorld = [t \in Tabs |-> PageInit]
  /\ ToggleInit(TRUE)
  /\ \E window \in DuplicateWindows : TabsInit(window)

NextDuplicates == CloseDuplicates

SpecDuplicates == InitDuplicates /\ [][NextDuplicates]_vars

----------------------------------------------------------------------------
(* SpecPrivacy: the popup scans pages for third-party and tracker hosts    *)

Min(a, b) == IF a <= b THEN a ELSE b
Max(a, b) == IF a >= b THEN a ELSE b

\* faulty variant: the third-party penalty has no cap
scoreUncapped(thirdPartyCount, trackerCount) ==
  Max(0, 100 - Min(60, trackerCount * 12) - Max(0, thirdPartyCount - 2) * 2)

\* part_000:52-57; the difference of integers is an integer, which
\* Math.round returns as it is
calculatePrivacyScore(thirdPartyCount, trackerCount) ==
  LET base == 100
      trackerPenalty == Min(60, trackerCount * 12)
      thirdPartyPenalty == Min(30, Max(0, thirdPartyCount - 2) * 2)
  IN Max(0, base - trackerPenalty - thirdPartyPenalty)

\* part_000:460-592: the click handler of the privacy scan; the page script
\* returns the third-party hosts and, among them, the tracker hosts, or an
\* error, after which no score is shown
ScanPrivacy(thirdPartyHosts, trackerHosts, failed) ==
  /\ trackerHosts <= thirdPartyHosts
  /\ popupLast' =
       IF failed
       THEN [op |-> "scanPrivacy", restore |-> FALSE, status |-> "error"]
       ELSE [op |-> "scanPrivacy", restore |-> FALSE, status |-> "success",
             thirdParty |-> thirdPartyHosts, trackers |-> trackerHosts,
             score |-> calculatePrivacyScore(thirdPartyHosts, trackerHosts)]
  /\ UNCHANGED <<browserTabs, tabGroups, urlInput, clipboard>>
  /\ UNCHANGED <<background, now, page, toggleUi, pageWorld>>

NextPrivacy ==
  \E thirdPartyHosts \in 0..MaxThirdParty, trackerHosts \in 0..MaxTrackers,
     failed \in BOOLEAN :
    ScanPrivacy(thirdPartyHosts, trackerHosts, failed)

SpecPrivacy == InitTabs /\ [][NextPrivacy]_vars

----------------------------------------------------------------------------
(* Properties *)

AllDetails == DetailsOf(Tabs \cup {NoTab}, ObservedRequests)

\* the list holds a record with this url
HasUrl(list, url) == \E i \in 1..Len(list) : list[i].url = url

\* the number of records of the list with this url
UrlCount(list, url) == Cardinality({ i \in 1..Len(list) : list[i].url = url })

\* the age of a record
Age(v) == now - v.timestamp

\* one of the observers runs for the request
Observes(details) ==
  /\ last'.op \in {"onBeforeRequest", "onHeadersReceived"}
  /\ last'.tabId = details.tabId
  /\ OnBeforeRequest(details) \/ OnHeadersReceived(details)

\* the two halves of first-observation-wins
NoDuplicateUrls ==
  \A t \in DOMAIN detectedVideos :
    \A i, j \in 1..Len(detectedVideos[t]) :
      detectedVideos[t][i].url = detectedVideos[t][j].url => i = j

DuplicateIgnored ==
  \A details \in AllDetails :
    ( /\ Observes(details)
      /\ details.tabId \in DOMAIN detectedVideos
      /\ HasUrl(detectedVideos[details.tabId], details.url) )
    => /\ details.tabId \in DOMAIN detectedVideos'
       /\ detectedVideos'[details.tabId] = detectedVideos[details.tabId]

\* C1: no tab's sequence ever holds two records with the same url, and an
\* observation, on either path, of a url the tab already holds leaves the
\* tab's sequence as it was (timestamp, type and contentType included)
C1_FirstObservationWins == [] NoDuplicateUrls /\ [][DuplicateIgnored]_vars

\* a url the tab recorded earlier has just been observed again
C1_Witness ==
  /\ last.op \in {"onBeforeRequest", "onHeadersReceived"}
  /\ last.outcome = "duplicate"
  /\ \E i \in 1..Len(detectedVideos[last.tabId]) :
       detectedVideos[last.tabId][i].timestamp < now

\* the cap, and what recording into a full tab does
AtMostMaxPerTab ==
  \A t \in DOMAIN detectedVideos : Len(detectedVideos[t]) <= 50

OldestDropped ==
  \A details \in AllDetails :
    ( /\ Observes(details)
      /\ details.tabId \in DOMAIN detectedVideos
      /\ Len(detectedVideos[details.tabId]) = 50
      /\ detectedVideos' # detectedVideos )
    => /\ Len(detectedVideos'[details.tabId]) = 50
       /\ SubSeq(detectedVideos'[details.tabId], 1, 49)
            = Tail(detectedVideos[details.tabId])
       /\ detectedVideos'[details.tabId][50].url = details.url
       /\ ~HasUrl(detectedVideos[details.tabId], details.url)

\* C2: no tab's sequence ever holds more than 50 records, and recording a
\* new url for a tab that holds 50 drops exactly the head of the sequence
\* and puts the new record last
C2_CapKeepsNewest == [] AtMostMaxPerTab /\ [][OldestDropped]_vars

\* a record has just been added to a full tab: the first filler is gone
C2_Witness ==
  /\ last.outcome = "capped"
  /\ Len(detectedVideos[last.tabId]) = 50
  /\ ~HasUrl(detectedVideos[last.tabId], FillerUrl(1))
  /\ HasUrl(detectedVideos[last.tabId], FillerUrl(50))

\* what a sweep that runs at time now' leaves
ExpiredAt(v, t) == t - v.timestamp >= 30 * 60 * 1000

SweepEffect ==
  /\ DOMAIN detectedVideos' =
       { t \in DOMAIN detectedVideos :
           \E i \in 1..Len(detectedVideos[t]) : ~ExpiredAt(detectedVideos[t][i], now') }
  /\ \A t \in DOMAIN detectedVideos' :
       detectedVideos'[t] =
         SelectSeq(detectedVideos[t], LAMBDA v : ~ExpiredAt(v, now'))

\* C3: a sweep at time now removes exactly the records with
\* now - timestamp >= 30 minutes, keeps the others in their order, and
\* deletes exactly the tabs left without a record, for every tab
C3_SweepRemovesExpired == [][last'.op = "sweep" => SweepEffect]_vars

\* a sweep has just removed a record and kept one a millisecond younger
\* than 30 minutes
C3_Witness ==
  /\ last.op = "sweep"
  /\ last.outcome = "evicted"
  /\ \E t \in DOMAIN detectedVideos : \E i \in 1..Len(detectedVideos[t]) :
       Age(detectedVideos[t][i]) = 30 * 60 * 1000 - 1

\* a record of this age or more is held or has just been returned
OlderThan(limit) ==
  \/ \E t \in DOMAIN detectedVideos : \E i \in 1..Len(detectedVideos[t]) :
       Age(detectedVideos[t][i]) >= limit
  \/ /\ last.op = "getDetectedVideos"
     /\ \E i \in 1..Len(response.videos) : Age(response.videos[i]) >= limit

\* C4, as claimed: the registry never holds, and getDetectedVideos never
\* returns, a record whose age is 30 minutes or more
C4_NeverOlderThanMaxAge == ~OlderThan(30 * 60 * 1000)

\* C4, amended: with the sweep run every 5 minutes, the registry never
\* holds, and getDetectedVideos never returns, a record whose age is 35
\* minutes (maxAge and one sweep interval) or more
C4_NeverOlderThanMaxAgePlusInterval == ~OlderThan(30 * 60 * 1000 + 5 * 60 * 1000)

\* getDetectedVideos has just returned a record that is older than 30 minutes
C4_Witness ==
  /\ last.op = "getDetectedVideos"
  /\ \E i \in 1..Len(response.videos) : Age(response.videos[i]) > 30 * 60 * 1000

\* C5, as claimed: no record of the registry has a url that matches an
\* exclude pattern
C5_ExcludedNeverRecorded ==
  \A t \in DOMAIN detectedVideos : \A i \in 1..Len(detectedVideos[t]) :
    ~isExcluded(detectedVideos[t][i].url)

\* the urls the claim is about, and what it says of their observation
HasVideoExtension(url) ==
  \E e \in 1..Len(extensions) : includes(toLowerCase(url), extensions[e])

C6_Recordable(url) ==
  /\ HasVideoExtension(url)
  /\ ~startsWith(url, StrBlob)
  /\ ~startsWith(url, StrData)
  /\ ~isExcluded(url)

C6_RecordedOnce ==
  \A details \in DetailsOf(Tabs, ObservedRequests) :
    ( /\ videoDownloaderEnabled
      /\ last'.op = "onBeforeRequest"
      /\ OnBeforeRequest(details)
      /\ C6_Recordable(details.url) )
    => /\ details.tabId \in DOMAIN detectedVideos'
       /\ UrlCount(detectedVideos'[details.tabId], details.url) = 1
       /\ \A i \in 1..Len(detectedVideos'[details.tabId]) :
            detectedVideos'[details.tabId][i].url = details.url
              => detectedVideos'[details.tabId][i].type = "network"

\* C6, as claimed: with detection on and a tab id, right after the
\* network-body path observes a url that has a video extension, is no blob:
\* or data: url and is not excluded, the tab holds exactly one record with
\* that url, of type 'network'
C6_ExactlyOneNetworkRecord == [][C6_RecordedOnce]_vars

\* what the toggle gates
DisabledGates ==
  ~videoDownloaderEnabled =>
    /\ \A t \in Tabs :
         GetDetectedVideos(t) => response' = [videos |-> <<>>, disabled |-> TRUE]
    /\ \A details \in AllDetails :
         Observes(details) => detectedVideos' = detectedVideos

\* C7: while detection is off, getDetectedVideos is answered with an empty
\* list and disabled: true for every tab, and no observer event changes
\* the registry
C7_DisabledGatesReadsAndWrites == [][DisabledGates]_vars

\* with detection off and records stored for the tab, the tab's list has
\* just been asked for and an empty list returned
C7_Witness ==
  /\ ~videoDownloaderEnabled
  /\ last.op = "getDetectedVideos"
  /\ response = [videos |-> <<>>, disabled |-> TRUE]
  /\ ListOf(detectedVideos, last.tabId) # <<>>

\* the two halves of the toggle's frame
ToggleKeepsRegistry ==
  ( \/ \E value \in FlagValues : SetVideoDownloaderEnabled(value)
    \/ \E area \in {"local", "sync"}, value \in FlagValues \cup {"absent"} :
         OnStorageChanged(area, value) )
  => detectedVideos' = detectedVideos

ReenableReveals ==
  (~videoDownloaderEnabled /\ videoDownloaderEnabled' /\ savedAtDisable.valid)
  => \A t \in Tabs :
       getResponse(detectedVideos', videoDownloaderEnabled', t)
         = [videos |-> ListOf(savedAtDisable.videos, t)]

\* C8: a toggle change, by message or by storage notification, leaves the
\* registry as it is; and when detection comes back on with no sweep, tab
\* close or clear since it went off, getDetectedVideos returns for every
\* tab what it returned before detection went off
C8_ToggleKeepsRegistry == [][ToggleKeepsRegistry /\ ReenableReveals]_vars

\* detection has just come back on and the records stored before it went
\* off are there
C8_Witness ==
  /\ last.op \in {"setVideoDownloaderEnabled", "storageChanged"}
  /\ last.outcome = "revealed"
  /\ videoDownloaderEnabled
  /\ \E t \in DOMAIN detectedVideos : Len(detectedVideos[t]) > 0

\* tab t is empty or absent and the other tabs are as they were
ClearedAfter(t) ==
  /\ ListOf(detectedVideos', t) = <<>>
  /\ \A u \in (DOMAIN detectedVideos \cup DOMAIN detectedVideos') \ {t} :
       /\ u \in DOMAIN detectedVideos
       /\ u \in DOMAIN detectedVideos'
       /\ detectedVideos'[u] = detectedVideos[u]

\* C9, as claimed: whenever clearDetectedVideos(tabId) is answered with
\* success: true, the registry holds no record for tabId afterwards and
\* the other tabs' sequences are unchanged
C9_ClearOnSuccess ==
  [][\A t \in Tabs :
       (ClearDetectedVideos(t) /\ response'.success = TRUE) => ClearedAfter(t)]_vars

\* C9, amended: whenever clearDetectedVideos(tabId) is answered with
\* success: true and no disabled flag, the registry holds no record for
\* tabId afterwards and the other tabs' sequences are unchanged
C9_ClearOnPlainSuccess ==
  [][\A t \in Tabs :
       ( /\ ClearDetectedVideos(t)
         /\ response'.success = TRUE
         /\ "disabled" \notin DOMAIN response' ) => ClearedAfter(t)]_vars

\* a tab has just been cleared while another tab holds a record
C9_Witness ==
  /\ last.op = "clearDetectedVideos"
  /\ response = [success |-> TRUE]
  /\ detectedVideos[last.tabId] = <<>>
  /\ \E u \in DOMAIN detectedVideos : Len(detectedVideos[u]) > 0

\* the answer to clearDetectedVideos and its effect when detection is off
ClearAnswer ==
  \A t \in Tabs :
    ClearDetectedVideos(t) =>
      IF videoDownloaderEnabled
      THEN response' = [success |-> TRUE]
      ELSE /\ response' = [success |-> TRUE, disabled |-> TRUE]
           /\ detectedVideos' = detectedVideos

\* C10: with detection off, clearDetectedVideos is answered with
\* {success: true, disabled: true} and the registry stays as it is; with
\* detection on it is answered with {success: true}, without disabled
C10_ClearWhileDisabled == [][ClearAnswer]_vars

\* with detection off, a tab that holds records has just been asked to be
\* cleared and still holds them
C10_Witness ==
  /\ ~videoDownloaderEnabled
  /\ last.op = "clearDetectedVideos"
  /\ response = [success |-> TRUE, disabled |-> TRUE]
  /\ ListOf(detectedVideos, last.tabId) # <<>>

\* what the setVideoDownloaderEnabled message does for a boolean, and a
\* second message with the value just acknowledged
SetEnabledContract ==
  /\ \A value \in {"true", "false"} :
       SetVideoDownloaderEnabled(value) =>
         /\ videoDownloaderEnabled' = (value = "true")
         /\ response' = [success |-> TRUE, enabled |-> (value = "true")]
         /\ ( /\ last.op = "setVideoDownloaderEnabled"
              /\ response = [success |-> TRUE, enabled |-> (value = "true")] )
            => (videoDownloaderEnabled' = videoDownloaderEnabled /\ response' = response)
  /\ \A value \in FlagValues :
       SetVideoDownloaderEnabled(value) =>
         (response'.success = TRUE /\ response'.enabled = videoDownloaderEnabled')

\* C11: the message setVideoDownloaderEnabled with a boolean b sets the flag
\* to b and is answered with {success: true, enabled: b}; a second message
\* with the same b leaves the flag and the answer as they are; the value
\* acknowledged is the value of the flag after the call
C11_SetEnabledAcknowledged == [][SetEnabledContract]_vars

\* detection has just been turned off by message and the answer says so
C11_Witness ==
  /\ last.op = "setVideoDownloaderEnabled"
  /\ last.outcome = "false"
  /\ ~videoDownloaderEnabled
  /\ response = [success |-> TRUE, enabled |-> FALSE]

\* the flag right after the script is loaded and right after a storage
\* event for the flag
FlagFollowsStored ==
  /\ last.op = "load" => videoDownloaderEnabled
  /\ ( \/ last.op = "storageGet"
       \/ (last.op = "storageChanged" /\ last.outcome # "ignored") )
     => (videoDownloaderEnabled <=> stored # "false")

OtherChangesIgnored ==
  \A area \in {"local", "sync"}, value \in FlagValues \cup {"absent"} :
    (OnStorageChanged(area, value) /\ (area # "local" \/ value = "absent"))
      => (videoDownloaderEnabled' = videoDownloaderEnabled /\ stored' = stored)

C13_BypassedFromStart ==
  offSinceStart =>
    \A t \in DOMAIN detectedVideos : Len(detectedVideos[t]) = 0

\* what a tab-closed notification does
TabClosed ==
  \A t \in Tabs :
    OnRemoved(t) =>
      /\ t \notin DOMAIN detectedVideos'
      /\ DOMAIN detectedVideos' = DOMAIN detectedVideos \ {t}
      /\ \A u \in DOMAIN detectedVideos' : detectedVideos'[u] = detectedVideos[u]
      /\ videoDownloaderEnabled' = videoDownloaderEnabled

\* C14: right after a tab-closed notification for a tab the registry has no
\* entry for it, with detection on or off; the other tabs' entries and the
\* toggle are as they were
C14_TabClosedRemovesEntry == [][TabClosed]_vars

\* with detection off, a tab that had an entry has just been closed, and
\* another tab still holds a record
C14_Witness ==
  /\ last.op = "onRemoved"
  /\ last.outcome = "removed"
  /\ ~videoDownloaderEnabled
  /\ last.tabId \notin DOMAIN detectedVideos
  /\ \E u \in DOMAIN detectedVideos : Len(detectedVideos[u]) > 0

\* C15, as claimed: a step that gives the registry a new key is an observer
\* event that recorded a detection; no control message creates an entry
C15_EntriesOnlyByDetection ==
  [][(DOMAIN detectedVideos' \ DOMAIN detectedVideos # {}) =>
       ( /\ last'.op \in {"onBeforeRequest", "onHeadersReceived"}
         /\ last'.outcome = "recorded" )]_vars

\* the answer to getDetectedVideos while detection is on
GetAnswer ==
  \A t \in Tabs :
    (videoDownloaderEnabled /\ GetDetectedVideos(t)) =>
      /\ response' = [videos |-> IF t \in DOMAIN detectedVideos
                                 THEN detectedVideos[t] ELSE <<>>]
      /\ "disabled" \notin DOMAIN response'
      /\ detectedVideos' = detectedVideos
      /\ videoDownloaderEnabled' = videoDownloaderEnabled

\* C16: with detection on, getDetectedVideos is answered with the tab's
\* records in the order they are held, with an empty list for a tab without
\* an entry, never with disabled; the registry and the toggle stay as they
\* are
C16_GetReturnsSequence == [][GetAnswer]_vars

\* with detection on, the two records of a tab have just been returned,
\* the older first
C16_Witness ==
  /\ last.op = "getDetectedVideos"
  /\ videoDownloaderEnabled
  /\ last.tabId \in DOMAIN detectedVideos
  /\ response = [videos |-> detectedVideos[last.tabId]]
  /\ Len(response.videos) = 2
  /\ response.videos[1].url # response.videos[2].url

\* the requests of the probe that belong to the tab and are well formed
WellFormed(details) ==
  /\ details.tabId = ProbeTab
  /\ details.url # Undefined
  /\ details.responseHeaders # NoHeaders
  /\ \A i \in 1..Len(details.responseHeaders) :
       details.responseHeaders[i].name # Undefined

\* the observer took the request for a video: it recorded it or found it
\* recorded already
Accepted(outcome) == outcome \in {"recorded", "duplicate", "capped"}

\* the value of the first content-type header, as the server sent it
HasContentType(headers) ==
  \E i \in 1..Len(headers) : toLowerCase(headers[i].name) = StrContentType

RawContentType(headers) ==
  headers[CHOOSE i \in 1..Len(headers) :
            /\ toLowerCase(headers[i].name) = StrContentType
            /\ \A j \in 1..(i - 1) : toLowerCase(headers[j].name) # StrContentType].value

\* a content type that, whatever its case, starts with video/ or is one of
\* the two HLS manifest types
ClaimedHeaderVideo(ct) ==
  \/ startsWith(toLowerCase(ct), <<"v","i","d","e","o","/">>)
  \/ toLowerCase(ct) = toLowerCase(CtMpegUrlX)
  \/ toLowerCase(ct) = toLowerCase(CtMpegUrlApple)

HeaderAcceptedIff ==
  \A details \in ProbeDetails :
    ( /\ WellFormed(details)
      /\ videoDownloaderEnabled
      /\ last'.op = "onHeadersReceived"
      /\ OnHeadersReceived(details) )
    => /\ Accepted(last'.outcome)
            <=> ( /\ HasContentType(details.responseHeaders)
                  /\ ClaimedHeaderVideo(RawContentType(details.responseHeaders)) )
       /\ last'.outcome = "recorded" =>
            LET list == detectedVideos'[details.tabId]
            IN /\ list[Len(list)].url = details.url
               /\ list[Len(list)].type = "header"
               /\ list[Len(list)].contentType
                    = toLowerCase(RawContentType(details.responseHeaders))

\* C17, as claimed: with detection on and a tab id, the header path takes a
\* response for a video exactly when its content-type, whatever its case,
\* starts with video/ or is application/x-mpegURL or
\* application/vnd.apple.mpegurl, and the record it adds has type 'header'
\* and the content type
C17_HeaderAcceptedIff == [][HeaderAcceptedIff]_vars

\* a url that holds, in any case, a video extension or one of the words
ClaimedVideo(url) ==
  \/ \E e \in 1..Len(extensions) : includes(toLowerCase(url), extensions[e])
  \/ includes(toLowerCase(url), StrVideo)
  \/ includes(toLowerCase(url), StrM3u8)
  \/ includes(toLowerCase(url), StrStream)

UrlAcceptedIff ==
  \A details \in ProbeDetails :
    ( /\ WellFormed(details)
      /\ videoDownloaderEnabled
      /\ last'.op = "onBeforeRequest"
      /\ OnBeforeRequest(details)
      /\ ~isExcluded(details.url)
      /\ ~includes(details.url, StrBlob)
      /\ ~includes(details.url, StrData) )
    => (Accepted(last'.outcome) <=> ClaimedVideo(details.url))

\* C18, as claimed: with detection on and a tab id, the network-body path
\* takes a url that is not excluded (and holds neither blob: nor data:) for
\* a video exactly when it holds a video extension or "video", ".m3u8" or
\* "stream", each compared without regard to case
C18_UrlAcceptedIff == [][UrlAcceptedIff]_vars

\* a url of the blob: or the data: scheme
IsBlobOrDataUrl(url) ==
  \/ startsWith(toLowerCase(url), StrBlob)
  \/ startsWith(toLowerCase(url), StrData)

NoBlobOrDataRecorded ==
  \A t \in DOMAIN detectedVideos : \A i \in 1..Len(detectedVideos[t]) :
    ~IsBlobOrDataUrl(detectedVideos[t][i].url)

OnlySchemesRejected ==
  \A details \in ProbeDetails :
    ( /\ WellFormed(details)
      /\ videoDownloaderEnabled
      /\ last'.op = "onBeforeRequest"
      /\ OnBeforeRequest(details)
      /\ ~isExcluded(details.url)
      /\ isVideo(details.url)
      /\ ~IsBlobOrDataUrl(details.url) )
    => Accepted(last'.outcome)

\* C19, as claimed: no record has a blob: or data: url, and the
\* network-body path turns down for blob: or data: only urls of those
\* schemes: a video url of another scheme that is not excluded is taken
C19_OnlyBlobAndDataRejected ==
  [][NoBlobOrDataRecorded' /\ OnlySchemesRejected]_vars

\* what an observer does with any request, well formed or not
ObserverTotal ==
  \A details \in ProbeDetails :
    ENABLED OnBeforeRequest(details) /\ ENABLED OnHeadersReceived(details)

ObserverHarmless ==
  \A details \in ProbeDetails :
    Observes(details) =>
      /\ last'.returned = "undefined"
      /\ last'.outcome \in {"disabled", "noTab", "caught", "rejected",
                            "duplicate", "capped", "recorded"}
      /\ last'.outcome = "caught" =>
           /\ detectedVideos' = detectedVideos
           /\ videoDownloaderEnabled' = videoDownloaderEnabled

\* C20: for every request, with or without a url, headers and header
\* names, each observer runs to its end and returns no value; when the
\* classification throws, the exception is caught and the registry and the
\* toggle are as they were
C20_ObserversNeverInterfere == [] ObserverTotal /\ [][ObserverHarmless]_vars

\* the network-body path has just caught the exception of a request
\* without a url, and the tab's record is still there
C20_Witness ==
  /\ last.op = "onBeforeRequest"
  /\ last.outcome = "caught"
  /\ last.returned = "undefined"
  /\ last.tabId \in DOMAIN detectedVideos
  /\ Len(detectedVideos[last.tabId]) > 0

\* an answer that reports a failure
IsFailure(r) ==
  \/ "error" \in DOMAIN r
  \/ ("success" \in DOMAIN r /\ r.success = FALSE)

\* the message names a tab without an entry, or detection is off
UnknownOrDisabled ==
  /\ last'.op \in {"getDetectedVideos", "clearDetectedVideos"}
  /\ (last'.tabId \notin DOMAIN detectedVideos \/ ~videoDownloaderEnabled)

\* a message is answered with one object, the other callbacks with none
OneAnswer ==
  IF last'.op \in MessageActions
  THEN response' # NoResponse /\ last'.returned = "true"
  ELSE response' = NoResponse

\* C21, as claimed: each of the three messages is answered with one object,
\* and a getDetectedVideos or clearDetectedVideos that names a tab without
\* an entry, or arrives while detection is off, is answered with a failure
\* object
C21_FailureWhenUnknownOrDisabled ==
  [][OneAnswer /\ (UnknownOrDisabled => IsFailure(response'))]_vars

\* the answers the three messages get
AnswerShapes ==
  /\ last'.op = "getDetectedVideos" =>
       response' = IF ~videoDownloaderEnabled
                   THEN [videos |-> <<>>, disabled |-> TRUE]
                   ELSE IF last'.tabId \in DOMAIN detectedVideos
                        THEN [videos |-> detectedVideos[last'.tabId]]
                        ELSE [videos |-> <<>>]
  /\ last'.op = "clearDetectedVideos" =>
       response' = IF ~videoDownloaderEnabled
                   THEN [success |-> TRUE, disabled |-> TRUE]
                   ELSE [success |-> TRUE]
  /\ last'.op = "setVideoDownloaderEnabled" =>
       response' = [success |-> TRUE, enabled |-> videoDownloaderEnabled']

\* C21, amended: each of the three messages is answered with one object and
\* none with a failure object: a tab without an entry is answered like an
\* empty tab ({videos: []}, {success: true}) and a message that arrives
\* while detection is off with disabled: true ({videos: [], disabled: true},
\* {success: true, disabled: true})
C21_AnsweredWithoutFailure ==
  [][OneAnswer /\ AnswerShapes /\ ~IsFailure(response')]_vars

\* with detection on, the list of a tab without an entry has just been
\* asked for and an empty list returned, while another tab holds a record
C21_Witness ==
  /\ last.op = "getDetectedVideos"
  /\ videoDownloaderEnabled
  /\ last.tabId \notin DOMAIN detectedVideos
  /\ response = [videos |-> <<>>]
  /\ \E u \in DOMAIN detectedVideos : Len(detectedVideos[u]) > 0

\* an observer event without a tab
NoTabIgnored ==
  \A details \in DetailsOf({NoTab}, ObservedRequests) :
    Observes(details) => detectedVideos' = detectedVideos

\* C24: an onBeforeRequest or onHeadersReceived event with tabId -1 leaves
\* the registry as it is, and the registry never has an entry for tab -1
C24_NoTabNeverRecorded ==
  [] (NoTab \notin DOMAIN detectedVideos) /\ [][NoTabIgnored]_vars

\* with detection on, an event without a tab has just been turned down
\* while a tab holds a record
C24_Witness ==
  /\ last.op \in {"onBeforeRequest", "onHeadersReceived"}
  /\ last.tabId = NoTab
  /\ last.outcome = "noTab"
  /\ videoDownloaderEnabled
  /\ \E u \in DOMAIN detectedVideos : Len(detectedVideos[u]) > 0

\* every record held was younger than 30 minutes at the time of the last
\* sweep, and the next sweep is not overdue
HeldWasFresh ==
  /\ now < nextSweep
  /\ \A t \in DOMAIN detectedVideos : \A i \in 1..Len(detectedVideos[t]) :
       /\ (nextSweep - 5 * 60 * 1000) - detectedVideos[t][i].timestamp < 30 * 60 * 1000
       /\ Age(detectedVideos[t][i]) < 35 * 60 * 1000

ReturnedYoung ==
  last.op = "getDetectedVideos" =>
    \A i \in 1..Len(response.videos) : Age(response.videos[i]) < 35 * 60 * 1000

\* C29: with the sweep on schedule, every record held passed the last sweep
\* younger than 30 minutes, so none held, and none just returned by
\* getDetectedVideos, has reached the age of 35 minutes
C29_GoneByMaxAgePlusInterval == HeldWasFresh /\ ReturnedYoung

\* a record two milliseconds short of 35 minutes has just been returned
C29_Witness ==
  /\ last.op = "getDetectedVideos"
  /\ \E i \in 1..Len(response.videos) :
       Age(response.videos[i]) = 35 * 60 * 1000 - 2

\* C23: with the interval timer firing every 5 minutes, a tab that has an
\* entry, and so every record it holds, is in the end without one, with
\* detection on or off
C23_EveryEntryEventuallyDeleted ==
  \A t \in {LiveTab} :
    (t \in DOMAIN detectedVideos) ~> (t \notin DOMAIN detectedVideos)

\* with detection off, a sweep has just removed the last records
C23_Witness ==
  /\ last.op = "sweep"
  /\ last.outcome = "evicted"
  /\ ~videoDownloaderEnabled
  /\ DOMAIN detectedVideos = {}
  /\ now >= 30 * 60 * 1000

\* the records of each tab are in the order of their timestamps
SortedByTimestamp ==
  \A t \in DOMAIN detectedVideos :
    \A i, j \in 1..Len(detectedVideos[t]) :
      i < j => detectedVideos[t][i].timestamp <= detectedVideos[t][j].timestamp

\* a is what is left of b when its first k records are dropped
IsSuffix(a, b) == \E k \in 0..Len(b) : a = SubSeq(b, k + 1, Len(b))

PrefixOnly ==
  /\ last'.op = "sweep" =>
       \A t \in DOMAIN detectedVideos :
         IsSuffix(ListOf(detectedVideos', t), detectedVideos[t])
  /\ last'.op \in {"onBeforeRequest", "onHeadersReceived"} =>
       \A t \in DOMAIN detectedVideos' :
         \/ detectedVideos'[t] = ListOf(detectedVideos, t)
         \/ LET new == detectedVideos'[t][Len(detectedVideos'[t])]
                grown == Append(ListOf(detectedVideos, t), new)
            IN /\ new.timestamp = now
               /\ \/ detectedVideos'[t] = grown /\ Len(grown) <= 50
                  \/ detectedVideos'[t] = Tail(grown) /\ Len(grown) = 51

\* C30: each tab's records are always in the order of their timestamps; a
\* sweep leaves of each tab a suffix of its sequence, and an observation
\* appends its record and, past 50, drops the head only
C30_OrderKept == [] SortedByTimestamp /\ [][PrefixOnly]_vars

\* after the cap has dropped the oldest video, a sweep has just removed the
\* videos of time 0 and left the two recorded later, in their order
C30_Witness ==
  /\ last.op = "sweep"
  /\ last.outcome = "evicted"
  /\ 1 \in DOMAIN detectedVideos
  /\ Len(detectedVideos[1]) = 2
  /\ detectedVideos[1][1].timestamp < detectedVideos[1][2].timestamp

\* the times at which request p checks for a result
PollTimes(p) == {p.startedAt + FirstDelay + k * PollDelay : k \in 0..maxAttempts}
Deadline(p) == p.startedAt + FirstDelay + maxAttempts * PollDelay

OneResponseInTime ==
  \A i \in DOMAIN polls :
    LET p == polls[i]
    IN p.accepted =>
         /\ Len(p.responses) <= 1
         /\ p.attempts <= maxAttempts
         /\ Pending(p) => /\ now <= Deadline(p)
                          /\ p.due = p.startedAt + FirstDelay + p.attempts * PollDelay
         /\ p.responses # <<>> =>
              LET a == p.responses[1]
              IN /\ a.at \in PollTimes(p)
                 /\ a.response = DownloadTimeout =>
                      a.at = Deadline(p) /\ p.attempts = maxAttempts
                 /\ a.response # DownloadTimeout =>
                      a.response \in {downloadBlob(PageInit, url).result : url \in BlobUrls}

ResultIfSeen ==
  \A i \in DOMAIN polls :
    /\ polls[i].responses # <<>> => polls'[i] = polls[i]
    /\ Pending(polls[i]) /\ polls'[i].responses # <<>> =>
         LET slot == content[polls[i].tab].lastDownloadResult
         IN IF slot = NoDownloadResult
            THEN polls'[i].responses[1].response = DownloadTimeout
            ELSE polls'[i].responses[1].response = slot.result

\* C22: an accepted downloadBlob request gets one response and stops polling:
\* the stored DOWNLOAD_RESULT if a check sees one, else the timeout failure
\* at the check 100 ms + 100 * 50 ms after the request, not before, not after
C22_OneResponseOrTimeout == [][OneResponseInTime' /\ ResultIfSeen]_vars

\* a request timed out, 5100 ms after it came, the page never answering
C22_Witness ==
  \E i \in DOMAIN polls :
    /\ polls[i].accepted
    /\ polls[i].responses = <<[response |-> DownloadTimeout, at |-> now, from |-> 0]>>
    /\ now = polls[i].startedAt + 5100
    /\ ~injectedLoaded[polls[i].tab]

\* C27: the response of a downloadBlob request is the result the page posted
\* for that request, and no request times out after another request took or
\* deleted its result
C27_AnswerOfOwnRequest ==
  \A i \in DOMAIN polls :
    LET p == polls[i]
    IN p.accepted /\ p.responses # <<>> =>
         LET a == p.responses[1]
         IN /\ a.response # DownloadTimeout => a.from = i
            /\ a.response = DownloadTimeout => ~p.robbed

\* every write, notification and message of the toggle has been delivered
Delivered ==
  /\ clicks # <<>>
  /\ \A k \in DOMAIN clicks : clicks[k].stage = "done"
  /\ \A l \in Listeners : notifications[l] = <<>> /\ messages[l] = <<>>

LastChosen == clicks[Len(clicks)].value

\* C28: once every write, notification and message caused by the changes of
\* the popup toggle is delivered, the popup, the store, the worker and every
\* content script have the value chosen last
C28_AllAgreeOnLastChoice ==
  Delivered =>
    /\ popupEnabled = LastChosen
    /\ stored = FlagOf(LastChosen)
    /\ videoDownloaderEnabled = LastChosen
    /\ \A t \in Tabs : content[t].videoDownloaderEnabled = LastChosen

\* two changes, the second made before the first had gone through, and
\* everything delivered
C28_Witness ==
  /\ Delivered
  /\ Len(clicks) >= 2
  /\ clicks[Len(clicks)].early
  /\ videoDownloaderEnabled = LastChosen

\* the tabs the step has added to the window
Created == SubSeq(browserTabs', Len(browserTabs) + 1, Len(browserTabs'))

Count(seq, Test(_)) == Cardinality({i \in DOMAIN seq : Test(seq[i])})

OpensAllValid ==
  LET parsed == [i \in DOMAIN LinesOf(urlInput) |-> ParseLine(LinesOf(urlInput)[i])]
      valid == SelectSeq(parsed, LAMBDA tab : IsValidUrl(tab.url))
  IN /\ Len(Created) = Len(valid)
     /\ \A k \in DOMAIN valid :
          Count(Created, LAMBDA tab : tab.url = valid[k].url)
            = Count(valid, LAMBDA tab : tab.url = valid[k].url)
     /\ popupLast'.restore =>
          \A k \in DOMAIN valid :
            HasGroup(valid[k]) =>
              \E i \in DOMAIN Created :
                /\ Created[i].url = valid[k].url
                /\ Created[i].groupId # NoGroup
                /\ tabGroups'[Created[i].groupId]
                     = [title |-> valid[k].groupTitle, color |-> valid[k].groupColor]
     /\ ~popupLast'.restore =>
          /\ tabGroups' = tabGroups
          /\ \A i \in DOMAIN Created : Created[i].groupId = NoGroup

\* C25: Open Tabs creates one tab for each line whose URL part begins with
\* http://, https:// or file:// and none for another line; with restore on,
\* each tab that carries a group name and color is in a group with that name
\* and color; with restore off no group is created
C25_OpensAllValid == [][popupLast'.op = "openTabs" => OpensAllValid]_vars

\* the text was copied from this window with group information, in the
\* plain format, and is opened with restore on
CopiedThenOpened ==
  /\ popupLast'.op = "openTabs"
  /\ popupLast'.restore
  /\ popupLast.op = "copyTabs"
  /\ urlInput = copyOutput(browserTabs, tabGroups, TRUE, FALSE)

SameTabsAndGroups ==
  /\ Len(Created) = Len(browserTabs)
  /\ \A i \in DOMAIN browserTabs :
       /\ Created[i].url = browserTabs[i].url
       /\ (Created[i].groupId = NoGroup) <=> (browserTabs[i].groupId = NoGroup)
       /\ browserTabs[i].groupId # NoGroup /\ Created[i].groupId # NoGroup =>
            tabGroups'[Created[i].groupId] = tabGroups[browserTabs[i].groupId]
       /\ \A j \in DOMAIN browserTabs :
            (Created[i].groupId = Created[j].groupId)
              <=> (browserTabs[i].groupId = browserTabs[j].groupId)

\* C26: opening, with restore on, the text copied with group information
\* in the plain format creates the same list of URLs, grouped the same way,
\* each group with its name and color
C26_RoundTrip == [][CopiedThenOpened => SameTabsAndGroups]_vars

\* the entry of tab b is the same before and after the step
EntryKept(b) ==
  /\ (b \in DOMAIN detectedVideos') <=> (b \in DOMAIN detectedVideos)
  /\ ListOf(detectedVideos', b) = ListOf(detectedVideos, b)

OtherTabsKept ==
  last'.op \in {"onBeforeRequest", "onHeadersReceived", "clearDetectedVideos", "onRemoved"} =>
    \A b \in Tabs \cup {NoTab} : b # last'.tabId => EntryKept(b)

OneTabPerStep ==
  last'.op # "sweep" => Cardinality({b \in Tabs \cup {NoTab} : ~EntryKept(b)}) <= 1

\* C31: an observer event, a clear or a tab close for one tab leaves the
\* entry of every other tab as it was; only the sweep changes the entries of
\* several tabs in one step
C31_OtherTabsUntouched == [][OtherTabsKept /\ OneTabPerStep]_vars

\* a url was just recorded for tab 2 while tab 1 holds a record of it too
C31_Witness ==
  /\ last.op \in {"onBeforeRequest", "onHeadersReceived"}
  /\ last.outcome = "recorded"
  /\ last.tabId = 2
  /\ \E url \in ObservedUrls :
       /\ HasUrl(ListOf(detectedVideos, 1), url)
       /\ detectedVideos[2][Len(detectedVideos[2])].url = url

Scored(p) == p.op = "scanPrivacy" /\ p.status = "success"

ScoreInRange ==
  \A tp \in 0..MaxThirdParty, tr \in 0..MaxTrackers :
    LET score == calculatePrivacyScore(tp, tr)
    IN /\ score \in 10..100
       /\ (score = 100) <=> (tr = 0 /\ tp <= 2)
       /\ tp < MaxThirdParty => calculatePrivacyScore(tp + 1, tr) <= score
       /\ tr < MaxTrackers => calculatePrivacyScore(tp, tr + 1) <= score

ScoreShown ==
  Scored(popupLast) =>
    /\ popupLast.score = calculatePrivacyScore(popupLast.thirdParty, popupLast.trackers)
    /\ popupLast.score \in 10..100
    /\ (popupLast.score = 100) <=> (popupLast.trackers = 0 /\ popupLast.thirdParty <= 2)

ScoreNeverIncreases ==
  /\ Scored(popupLast) /\ Scored(popupLast')
  /\ popupLast'.thirdParty >= popupLast.thirdParty
  /\ popupLast'.trackers >= popupLast.trackers
  => popupLast'.score <= popupLast.score

\* C39: the privacy score is an integer from 10 to 100, it is 100 exactly
\* when there is no tracker and there are at most 2 third-party hosts, and
\* it does not grow when the tracker count or the third-party count grows
C39_ScoreBounded ==
  [] (ScoreInRange /\ ScoreShown) /\ [][ScoreNeverIncreases]_vars

\* a scan that found so many trackers and third parties that both
\* penalties are at their caps
C39_Witness ==
  /\ Scored(popupLast)
  /\ popupLast.trackers >= 5
  /\ popupLast.thirdParty >= 17
  /\ popupLast.score = 10

\* the line written for a tab is taken as encoded and gives back the tab's
\* url and the group's title and color
EncodedLineDecodes(tab, group) ==
  LET line == encodeTabData(tab, group)
  IN /\ isEncodedFormat(line)
     /\ decodeTabData(line) =
          [url |-> tab.url,
           groupTitle |-> IF group = NullGroup THEN Null ELSE group.title,
           groupColor |-> IF group = NullGroup THEN Null ELSE group.color]

EveryTabDecodes ==
  \A i \in DOMAIN browserTabs, includeGroups \in BOOLEAN :
    EncodedLineDecodes(browserTabs[i], GroupOf(browserTabs[i], tabGroups, includeGroups))

\* the text was copied from this window in the encoded format and is opened
CopiedEncodedThenOpened ==
  /\ popupLast'.op = "openTabs"
  /\ popupLast.op = "copyTabs"
  /\ \E includeGroups \in BOOLEAN :
       urlInput = copyOutput(browserTabs, tabGroups, includeGroups, TRUE)

EveryTabReopened ==
  /\ Len(Created) = Len(browserTabs)
  /\ \A i \in DOMAIN browserTabs :
       Count(Created, LAMBDA tab : tab.url = browserTabs[i].url)
         = Count(browserTabs, LAMBDA tab : tab.url = browserTabs[i].url)

\* C38: the encoded line of every tab, with or without group, is taken as
\* encoded and decodes to the tab's url, group title and group color, and
\* opening a text copied in the encoded format opens every copied tab
C38_EncodedRoundTrip ==
  [] EveryTabDecodes /\ [][CopiedEncodedThenOpened => EveryTabReopened]_vars

UrlsOf(tabs) == {tabs[i].url : i \in DOMAIN tabs}
FirstWith(tabs, url) == First({i \in DOMAIN tabs : tabs[i].url = url})

OneTabPerUrl ==
  /\ UrlsOf(browserTabs') = UrlsOf(browserTabs)
  /\ \A url \in UrlsOf(browserTabs) :
       Count(browserTabs', LAMBDA tab : tab.url = url) = 1
  /\ \A k \in DOMAIN browserTabs' :
       /\ browserTabs'[k] = browserTabs[FirstWith(browserTabs, browserTabs'[k].url)]
       /\ \A l \in DOMAIN browserTabs' :
            k < l => FirstWith(browserTabs, browserTabs'[k].url)
                       < FirstWith(browserTabs, browserTabs'[l].url)
  /\ popupLast'.closed = Len(browserTabs) - Len(browserTabs')

\* C37: after Close Duplicate Tabs each URL of the window is the URL of one
\* tab, the first one that had it, in the order the tabs were in; the set of
\* URLs is the same, so no tab with a URL of its own is closed
C37_OneTabPerUrl == [][popupLast'.op = "closeDuplicates" => OneTabPerUrl]_vars

\* duplicates of two URLs have just been closed, and a tab in a group, a
\* copy of which was closed, is still open
C37_Witness ==
  /\ popupLast.op = "closeDuplicates"
  /\ popupLast.closed = 2
  /\ Len(browserTabs) = 2
  /\ \E i \in DOMAIN browserTabs : browserTabs[i].groupId # NoGroup

DisabledMeansEmpty ==
  \A t \in Tabs : ~content[t].videoDownloaderEnabled => content[t].detectedBlobs = <<>>

\* a message that the listener gets while the flag is off changes nothing
IgnoredWhileDisabled ==
  \A t \in Tabs :
    /\ ~content[t].videoDownloaderEnabled
    /\ windowMessages[t] # <<>>
    /\ windowMessages'[t] = Tail(windowMessages[t])
    => content'[t] = content[t]

\* the step that turns the flag off clears the list, the step that turns it
\* on starts with the empty list
ToggleLeavesEmpty ==
  \A t \in Tabs :
    content'[t].videoDownloaderEnabled # content[t].videoDownloaderEnabled
      => content'[t].detectedBlobs = <<>>

\* C32: while the content script's flag is off its blob list is empty:
\* turning the flag off clears it, a BLOB_DETECTED or BLOBS_LIST message
\* that comes while the flag is off is ignored, and turning the flag on
\* again does not bring back the blobs that were held
C32_DisabledMeansEmpty ==
  [] DisabledMeansEmpty /\ [][IgnoredWhileDisabled /\ ToggleLeavesEmpty]_vars

\* the flag is on again after a list with blobs was cleared, a blob
\* message waits and the list is still empty
C32_Witness ==
  /\ content[ContentTab].videoDownloaderEnabled
  /\ content[ContentTab].clearedBlobs # <<>>
  /\ content[ContentTab].detectedBlobs = <<>>
  /\ windowMessages[ContentTab] # <<>>

InjectedAtMostOnce ==
  \A t \in Tabs :
    /\ content[t].injections <= 1
    /\ content[t].injectionAttempted <=> content[t].injections = 1
    /\ ~content[t].startupReadPending /\ content[t].videoDownloaderEnabled
         => content[t].injections = 1

InjectsOnlyEnabled ==
  \A t \in Tabs :
    content'[t].injections > content[t].injections
      => content'[t].videoDownloaderEnabled

\* C34: the content script injects at most once, whatever changes of the
\* flag, storage notifications and DOMContentLoaded events there are, and
\* never while the flag is off; once the flag has been set to on, by the
\* start-up read or later, the injection has been made
C34_InjectsAtMostOnce == [] InjectedAtMostOnce /\ [][InjectsOnlyEnabled]_vars

\* the script started with the stored flag off in a loading document, was
\* enabled later, injected once, and the document has finished loading
C34_Witness ==
  /\ stored = "false"
  /\ ~content[ContentTab].startupReadPending
  /\ content[ContentTab].videoDownloaderEnabled
  /\ content[ContentTab].injections = 1
  /\ content[ContentTab].readyState = "interactive"

\* the result the page script is to post for a url
BlobNotFound == [success |-> FALSE, error |-> "Blob not found in storage"]
ExpectedResult(world, url) ==
  IF url \in DOMAIN world.videoBlobs
       \/ reconstructBlobFromMSE(world, url).blob # NoBlob
  THEN [success |-> TRUE]
  ELSE BlobNotFound

\* a step that takes a DOWNLOAD_BLOB message from the window of a tab whose
\* page script runs puts one DOWNLOAD_RESULT in its place, at the end
OneResultPosted ==
  \A t \in Tabs :
    LET queue == windowMessages[t]
        after == windowMessages'[t]
    IN /\ queue # <<>>
       /\ Head(queue).type = "DOWNLOAD_BLOB"
       /\ injectedLoaded[t]
       /\ after # queue
       /\ Len(after) <= Len(queue)
       => /\ Len(after) = Len(queue)
          /\ SubSeq(after, 1, Len(after) - 1) = Tail(queue)
          /\ after[Len(after)].type = "DOWNLOAD_RESULT"
          /\ after[Len(after)].result = ExpectedResult(pageWorld[t], Head(queue).url)

Copyable(buffer) == buffer.kind \in {"ArrayBuffer", "view"}
Denoted(buffer) ==
  IF buffer.kind = "ArrayBuffer" THEN buffer.bytes
  ELSE [i \in 1..buffer.byteLength |-> buffer.bytes[buffer.byteOffset + i]]

RECURSIVE SumLen(_)
SumLen(chunks) == IF chunks = <<>> THEN 0 ELSE Len(Head(chunks)) + SumLen(Tail(chunks))

AllSources(world) ==
  {<<ms, k>> : ms \in DOMAIN world.mseCaptures, k \in 1..MaxSources}
    \cap {<<ms, k>> \in MediaSources \X (1..MaxSources) :
            /\ ms \in DOMAIN world.mseCaptures
            /\ k \in DOMAIN world.mseCaptures[ms].sources}

SourceAt(world, id) == world.mseCaptures[id[1]].sources[id[2]]

\* totalBytes is the sum of the lengths of the chunks, no source has more
\* chunks than calls, and the original appendBuffer has been called as
\* often as the hooks
TotalsAgree ==
  \A t \in Tabs :
    /\ \A id \in AllSources(pageWorld[t]) :
         /\ SourceAt(pageWorld[t], id).totalBytes
              = SumLen(SourceAt(pageWorld[t], id).buffers)
         /\ Len(SourceAt(pageWorld[t], id).buffers)
              <= Len(SourceAt(pageWorld[t], id).calls)
    /\ LET ids == AllSources(pageWorld[t])
           RECURSIVE Calls(_)
           Calls(set) ==
             IF set = {} THEN 0
             ELSE LET id == CHOOSE x \in set : TRUE
                  IN Len(SourceAt(pageWorld[t], id).calls) + Calls(set \ {id})
       IN Calls(ids) = pageWorld[t].hookCalls

\* a call adds nothing to the chunks or, at their end, the bytes of its
\* argument; it changes no other source
ChunkIsCopy ==
  \A t \in Tabs :
    pageWorld'[t].hookCalls # pageWorld[t].hookCalls =>
      /\ pageWorld'[t].hookCalls = pageWorld[t].hookCalls + 1
      /\ AllSources(pageWorld'[t]) = AllSources(pageWorld[t])
      /\ \E id \in AllSources(pageWorld[t]) :
           LET old == SourceAt(pageWorld[t], id)
               new == SourceAt(pageWorld'[t], id)
           IN /\ Len(new.calls) = Len(old.calls) + 1
              /\ SubSeq(new.calls, 1, Len(old.calls)) = old.calls
              /\ \/ new.buffers = old.buffers
                 \/ /\ Copyable(new.calls[Len(new.calls)])
                    /\ new.buffers
                         = Append(old.buffers, Denoted(new.calls[Len(new.calls)]))
              /\ \A other \in AllSources(pageWorld[t]) \ {id} :
                   SourceAt(pageWorld'[t], other) = SourceAt(pageWorld[t], other)

\* C35: the chunks of a captured source buffer are copies of the buffers
\* given to appendBuffer, in the order of the calls, totalBytes is the sum
\* of their lengths, and each call reaches the original appendBuffer, also
\* one whose chunk is not captured
C35_ChunksAreCopies == [] TotalsAgree /\ [][ChunkIsCopy]_vars

\* a source buffer with two calls, one of them not captured, whose one
\* chunk is the part of the buffer that the view shows
C35_Witness ==
  \E id \in AllSources(pageWorld[PageTab]) :
    LET source == SourceAt(pageWorld[PageTab], id)
    IN /\ Len(source.calls) = 2
       /\ source.buffers = << <<2>> >>
       /\ source.totalBytes = 1

IsVideo(source) == startsWith(source.mimeType, StrVideoSlash)

\* the world after the reconstruction holds the blob under the url, and a
\* lookup finds it
Rebuilt(world, url, source) ==
  LET r == reconstructBlobFromMSE(world, url)
  IN /\ r.blob # NoBlob
     /\ r.blob.parts = source.buffers
     /\ r.blob.type = source.mimeType
     /\ url \in DOMAIN r.world.videoBlobs
     /\ r.world.videoBlobs[url] = r.blob
     /\ Found(r.world, url) = [world |-> r.world, blob |-> r.blob]

Nothing(world, url) ==
  reconstructBlobFromMSE(world, url) = [world |-> world, blob |-> NoBlob]

\* the source of position i is used: nothing is returned when it has no
\* buffers, else the blob of its buffers
Uses(world, url, sources, i) ==
  IF sources[i].buffers = <<>> THEN Nothing(world, url)
  ELSE Rebuilt(world, url, sources[i])

\* withZero: a source with the most bytes is used also when that is 0 bytes
ReconstructsFrom(world, url, withZero) ==
  LET sources == IF CaptureOf(world, url) = NoCapture THEN <<>>
                 ELSE CaptureOf(world, url).sources
      videos == {i \in DOMAIN sources : IsVideo(sources[i])}
      most == {i \in DOMAIN sources :
                 \A j \in DOMAIN sources : sources[j].totalBytes <= sources[i].totalBytes}
  IN IF url \notin DOMAIN world.mseUrlToId \/ sources = <<>>
     THEN Nothing(world, url)
     ELSE IF videos # {} THEN Uses(world, url, sources, First(videos))
     ELSE IF withZero THEN \E i \in most : Uses(world, url, sources, i)
     ELSE IF sources[First(most)].totalBytes = 0 THEN Nothing(world, url)
     ELSE Uses(world, url, sources, First(most))

\* C36 as stated: the first source whose type starts with video/ is used,
\* otherwise the source with the most bytes; nothing is returned when the
\* url has no capture or the source used has no buffers, else the blob is
\* stored under the url
C36_UsesVideoOrLargest ==
  \A url \in PageUrls : ReconstructsFrom(pageWorld[PageTab], url, TRUE)

\* C36: the first source whose type starts with video/ is used, otherwise
\* the first of the sources with the most bytes when that is more than 0
\* bytes; nothing is returned when the url has no capture, when no source
\* is used or when the source used has no buffers, else the blob is stored
\* under the url and a lookup finds it
C36_UsesVideoOrLargestWithBytes ==
  \A url \in PageUrls : ReconstructsFrom(pageWorld[PageTab], url, FALSE)

\* the url of a MediaSource whose first source is an audio track with more
\* bytes than the video track after it; the video track has been rebuilt
C36_Witness ==
  LET world == pageWorld[PageTab]
      sources == SourcesOf(world, 1)
  IN /\ UrlMse \in DOMAIN world.mseUrlToId
     /\ Len(sources) = 2
     /\ ~IsVideo(sources[1]) /\ IsVideo(sources[2])
     /\ sources[1].totalBytes > sources[2].totalBytes
     /\ sources[2].buffers # <<>>
     /\ UrlMse \in DOMAIN world.videoBlobs
     /\ world.videoBlobs[UrlMse] = Blob(MimeVideo, sources[2].buffers)

====
